---- MODULE Spec2Model ----
(***************************************************************************)
(* Model of the RPS run simulator of gigaverse-sdk                          *)
(* (src/simulator/ExtendedRpsSimulator.ts): simulateMultipleRuns drives     *)
(* simulateRun / simulateRunNoLogs, which fight the roster battle by battle *)
(* with loot phases in between.                                             *)
(*                                                                          *)
(* Math.random() is a draw d in 0..RandDen-1 standing for the value         *)
(* d / RandDen of [0,1).  Player objects live on a small heap (objects) so  *)
(* that a reference that is shared and a copy are different things.         *)
(*                                                                          *)
(* The second part models the action token of GameClient                    *)
(* (src/client/GameClient.ts): startRun / playMove / useItem send a request *)
(* and store the token of the response when the awaited POST settles.       *)
(***************************************************************************)
EXTENDS Integers, Sequences, FiniteSets, TLC

\* ------------------------------------------------------------------ bounds
RandDen == 3
MaxRuns == 2
MaxToken == 1
MaxInFlight == 2

Draws == 0 .. (RandDen - 1)

\* --------------------------------------------------------------- constants
ROCK == "rock"
PAPER == "paper"
SCISSOR == "scissor"
allMoves == <<ROCK, PAPER, SCISSOR>>

EnemyCharges == 3
LootSampleCount == 3
HealLevel3 == 20
HealLevel2 == 8
HealDefault == 4
\* ratio < 0.3, kept exact as RatioNum / RatioDen
RatioNum == 3
RatioDen == 10

Undefined == -1000

\* Then(v, F) is F(v), with v evaluated once before F is applied: the
\* statements of a function body run one after the other
Then(v, F(_)) == CHOOSE y \in {F(x) : x \in {v}} : TRUE

Min(a, b) == IF a <= b THEN a ELSE b
Max(a, b) == IF a >= b THEN a ELSE b

\* ------------------------------------------------------------ pure helpers

\* getMoveStats: the PlayerStats object of a move
getMoveStats(player, move) ==
  CASE move = ROCK -> player.rock
    [] move = PAPER -> player.paper
    [] move = SCISSOR -> player.scissor

getHealAmount(level) ==
  CASE level = 3 -> HealLevel3
    [] level = 2 -> HealLevel2
    [] OTHER -> HealDefault

\* Math.floor(randomFn() * n) for the draw d
FloorRand(d, n) == (d * n) \div RandDen

\* variant: a move with 0 charges is a candidate too
pickCandidatesFromZero(player) ==
  (IF player.rock.currentCharges >= 0 THEN <<ROCK>> ELSE <<>>)
  \o (IF player.paper.currentCharges >= 0 THEN <<PAPER>> ELSE <<>>)
  \o (IF player.scissor.currentCharges >= 0 THEN <<SCISSOR>> ELSE <<>>)

pickCandidates(player) ==
  (IF player.rock.currentCharges > 0 THEN <<ROCK>> ELSE <<>>)
  \o (IF player.paper.currentCharges > 0 THEN <<PAPER>> ELSE <<>>)
  \o (IF player.scissor.currentCharges > 0 THEN <<SCISSOR>> ELSE <<>>)

pickRandomMove(player, d) ==
  LET candidates == pickCandidates(player)
  IN IF Len(candidates) = 0
       THEN ROCK
       ELSE candidates[FloorRand(d, Len(candidates)) + 1]

\* variant: only an entry past the end of the array defaults to 0
statOr0PastEndOnly(arr, k) ==
  IF k + 1 <= Len(arr) THEN arr[k + 1] ELSE 0

\* arr[k] || 0 on MOVE_STATS_CID_array (k counted from 0): a missing or
\* null entry is undefined/null, hence falsy
statOr0(arr, k) ==
  IF k + 1 <= Len(arr) /\ arr[k + 1] # Undefined THEN arr[k + 1] ELSE 0

enemyMoveStats(atk, def) ==
  [startingATK |-> atk, startingDEF |-> def,
   currentATK |-> atk, currentDEF |-> def,
   currentCharges |-> EnemyCharges, maxCharges |-> EnemyCharges]

convertEnemyToPlayer(e) ==
  LET arr == e.MOVE_STATS_CID_array
      hp == statOr0(arr, 6)
      shield == statOr0(arr, 7)
  IN [id |-> e.ID_CID,
      health |-> [current |-> hp, currentMax |-> hp,
                  starting |-> hp, startingMax |-> hp],
      shield |-> [current |-> shield, currentMax |-> shield,
                  starting |-> shield, startingMax |-> shield],
      rock |-> enemyMoveStats(statOr0(arr, 0), statOr0(arr, 1)),
      paper |-> enemyMoveStats(statOr0(arr, 2), statOr0(arr, 3)),
      scissor |-> enemyMoveStats(statOr0(arr, 4), statOr0(arr, 5))]

\* variant: one object per distinct definition, handed out again for a
\* definition already converted
convertedObjectCached(k, enemies) ==
  CHOOSE j \in 1 .. k :
    /\ enemies[j] = enemies[k]
    /\ \A h \in 1 .. (j - 1) : enemies[h] # enemies[k]

\* identity of the object convertEnemyToPlayer returns for enemies[k]: the
\* object literal is a new object at every call
convertedObject(k, enemies) == k

\* rock beats scissor, scissor beats paper, paper beats rock
Beats(a, b) ==
  \/ a = ROCK /\ b = SCISSOR
  \/ a = SCISSOR /\ b = PAPER
  \/ a = PAPER /\ b = ROCK

\* variant: the side that loses the round still gains its shield
computeRoundOutcomeShieldForLoser(player, enemy, playerMove, enemyMove) ==
  LET pStats == getMoveStats(player, playerMove)
      eStats == getMoveStats(enemy, enemyMove)
      tie == playerMove = enemyMove
      playerWins ==
        /\ ~tie
        /\ \/ playerMove = ROCK /\ enemyMove = SCISSOR
           \/ playerMove = SCISSOR /\ enemyMove = PAPER
           \/ playerMove = PAPER /\ enemyMove = ROCK
  IN IF tie \/ playerWins
       THEN [dmgToEnemy |-> pStats.currentATK,
             shieldGainPlayer |-> pStats.currentDEF,
             dmgToPlayer |-> IF tie THEN eStats.currentATK ELSE 0,
             shieldGainEnemy |-> eStats.currentDEF]
       ELSE [dmgToEnemy |-> 0, shieldGainPlayer |-> pStats.currentDEF,
             dmgToPlayer |-> eStats.currentATK,
             shieldGainEnemy |-> eStats.currentDEF]

\* variant: on a tie the two hits cancel out, only the shields are gained
computeRoundOutcomeTieCancels(player, enemy, playerMove, enemyMove) ==
  LET pStats == getMoveStats(player, playerMove)
      eStats == getMoveStats(enemy, enemyMove)
  IN IF playerMove = enemyMove
       THEN [dmgToEnemy |-> 0, shieldGainPlayer |-> pStats.currentDEF,
             dmgToPlayer |-> 0, shieldGainEnemy |-> eStats.currentDEF]
       ELSE IF Beats(playerMove, enemyMove)
         THEN [dmgToEnemy |-> pStats.currentATK,
               shieldGainPlayer |-> pStats.currentDEF,
               dmgToPlayer |-> 0, shieldGainEnemy |-> 0]
         ELSE [dmgToEnemy |-> 0, shieldGainPlayer |-> 0,
               dmgToPlayer |-> eStats.currentATK,
               shieldGainEnemy |-> eStats.currentDEF]

computeRoundOutcome(player, enemy, playerMove, enemyMove) ==
  LET pStats == getMoveStats(player, playerMove)
      eStats == getMoveStats(enemy, enemyMove)
      tie == playerMove = enemyMove
      playerWins ==
        /\ ~tie
        /\ \/ playerMove = ROCK /\ enemyMove = SCISSOR
           \/ playerMove = SCISSOR /\ enemyMove = PAPER
           \/ playerMove = PAPER /\ enemyMove = ROCK
  IN IF tie
       THEN [dmgToEnemy |-> pStats.currentATK,
             shieldGainPlayer |-> pStats.currentDEF,
             dmgToPlayer |-> eStats.currentATK,
             shieldGainEnemy |-> eStats.currentDEF]
       ELSE IF playerWins
         THEN [dmgToEnemy |-> pStats.currentATK,
               shieldGainPlayer |-> pStats.currentDEF,
               dmgToPlayer |-> 0, shieldGainEnemy |-> 0]
         ELSE [dmgToEnemy |-> 0, shieldGainPlayer |-> 0,
               dmgToPlayer |-> eStats.currentATK,
               shieldGainEnemy |-> eStats.currentDEF]

\* variant: the defender's HP is not floored at 0
applyDamageAndShieldNoFloor(incomingDamage, shieldGain, attacker, defender) ==
  LET att == [attacker EXCEPT !.shield.current =
                Min(attacker.shield.current + shieldGain,
                    attacker.shield.currentMax)]
      absorb == IF defender.shield.current > 0 /\ incomingDamage > 0
                  THEN Min(defender.shield.current, incomingDamage)
                  ELSE 0
      remaining == incomingDamage - absorb
      def1 == [defender EXCEPT !.shield.current = @ - absorb]
      def2 == IF remaining > 0
                THEN [def1 EXCEPT !.health.current = @ - remaining]
                ELSE def1
  IN [attacker |-> att, defender |-> def2]

\* variant: the shield absorbs, but the hit reaches the HP in full
applyDamageAndShieldFullHit(incomingDamage, shieldGain, attacker, defender) ==
  LET att == [attacker EXCEPT !.shield.current =
                Min(attacker.shield.current + shieldGain,
                    attacker.shield.currentMax)]
      absorb == IF defender.shield.current > 0 /\ incomingDamage > 0
                  THEN Min(defender.shield.current, incomingDamage)
                  ELSE 0
      def1 == [defender EXCEPT !.shield.current = @ - absorb]
      def2 == IF incomingDamage > 0
                THEN [def1 EXCEPT !.health.current =
                        Max(0, @ - incomingDamage)]
                ELSE def1
  IN [attacker |-> att, defender |-> def2]

\* applyDamageAndShield: the attacker gains shield, then the defender's
\* shield absorbs, then the defender's HP takes the rest
applyDamageAndShield(incomingDamage, shieldGain, attacker, defender) ==
  LET att == [attacker EXCEPT !.shield.current =
                Min(attacker.shield.current + shieldGain,
                    attacker.shield.currentMax)]
      absorb == IF defender.shield.current > 0 /\ incomingDamage > 0
                  THEN Min(defender.shield.current, incomingDamage)
                  ELSE 0
      remaining == incomingDamage - absorb
      def1 == [defender EXCEPT !.shield.current = @ - absorb]
      def2 == IF remaining > 0
                THEN [def1 EXCEPT !.health.current = Max(0, @ - remaining)]
                ELSE def1
  IN [attacker |-> att, defender |-> def2]

\* variant: the last charge is spent without the penalty
usedChargesNoPenalty(c) ==
  IF c >= 1 THEN c - 1 ELSE c

\* variant: a move played without a charge left is penalised as well
usedChargesPenaltyAtZero(c) ==
  IF c > 1 THEN c - 1 ELSE IF c >= 0 THEN -1 ELSE c

usedCharges(c) ==
  IF c > 1 THEN c - 1 ELSE IF c = 1 THEN -1 ELSE c

\* variant: an idle move regenerates without looking at maxCharges
idleChargesNoCap(c, maxCharges) ==
  IF c = -1 THEN 0 ELSE c + 1

\* variant: idling does not release a penalised move
idleChargesKeepsPenalty(c, maxCharges) ==
  IF c >= 0 /\ c < maxCharges THEN c + 1 ELSE c

\* variant: an idle move at 0 charges does not regenerate
idleChargesStuckAtZero(c, maxCharges) ==
  IF c = -1 THEN 0
  ELSE IF c > 0 /\ c < maxCharges THEN c + 1 ELSE c

idleCharges(c, maxCharges) ==
  IF c = -1 THEN 0
  ELSE IF c >= 0 /\ c < maxCharges THEN c + 1 ELSE c

\* variant: only the move played is updated
updateChargesPlayedOnly(player, moveUsed) ==
  LET upd(m) == IF m = moveUsed
                  THEN usedCharges(player[m].currentCharges)
                  ELSE player[m].currentCharges
  IN [player EXCEPT !.rock.currentCharges = upd(ROCK),
                    !.paper.currentCharges = upd(PAPER),
                    !.scissor.currentCharges = upd(SCISSOR)]

updateCharges(player, moveUsed) ==
  LET upd(m) == IF m = moveUsed
                  THEN usedCharges(player[m].currentCharges)
                  ELSE idleCharges(player[m].currentCharges,
                                   player[m].maxCharges)
  IN [player EXCEPT !.rock.currentCharges = upd(ROCK),
                    !.paper.currentCharges = upd(PAPER),
                    !.scissor.currentCharges = upd(SCISSOR)]

\* variant: the trigger also fires at a ratio of exactly 0.3
ratioAtOrBelowThreshold(player) ==
  /\ player.health.currentMax > 0
  /\ player.health.current * RatioDen <= RatioNum * player.health.currentMax

\* ratio = health.current / health.currentMax ; ratio < 0.3.  A zero
\* currentMax gives NaN or Infinity, for which the comparison is false.
ratioBelowThreshold(player) ==
  /\ player.health.currentMax > 0
  /\ player.health.current * RatioDen < RatioNum * player.health.currentMax

\* variant: the first item in stock is taken, whatever its name
findAnyItem(consumables) ==
  LET hits == {k \in 1 .. Len(consumables) : consumables[k].quantity > 0}
  IN IF hits = {} THEN 0 ELSE CHOOSE k \in hits : \A h \in hits : k <= h

\* variant: the first heal is taken, in stock or not
findHealItemAnyStock(consumables) ==
  LET hits == {k \in 1 .. Len(consumables) : consumables[k].name = "heal"}
  IN IF hits = {} THEN 0 ELSE CHOOSE k \in hits : \A h \in hits : k <= h

\* consumables.find(c => c.name === "heal" && c.quantity > 0): index of the
\* first such item, 0 when there is none
findHealItem(consumables) ==
  LET hits == {k \in 1 .. Len(consumables) :
                 consumables[k].name = "heal" /\ consumables[k].quantity > 0}
  IN IF hits = {} THEN 0 ELSE CHOOSE k \in hits : \A h \in hits : k <= h

usedLogEntry(item) ==
  [name |-> "heal", level |-> item.level, amt |-> getHealAmount(item.level)]

maybeUseConsumable(player, consumables, usedLog) ==
  LET k == findHealItem(consumables)
  IN IF ratioBelowThreshold(player) /\ k # 0
       THEN [player |-> [player EXCEPT !.health.current =
                           Min(player.health.currentMax,
                               @ + getHealAmount(consumables[k].level))],
             consumables |-> [consumables EXCEPT ![k].quantity = @ - 1],
             usedLog |-> Append(usedLog, usedLogEntry(consumables[k]))]
       ELSE [player |-> player, consumables |-> consumables,
             usedLog |-> usedLog]

\* variant: the silent path heals but does not record the use
maybeUseConsumableNoLogsUnrecorded(player, consumables, usedLog) ==
  LET k == findHealItem(consumables)
      amt == IF k # 0 THEN getHealAmount(consumables[k].level) ELSE 0
  IN IF ~ratioBelowThreshold(player) \/ k = 0
       THEN [player |-> player, consumables |-> consumables,
             usedLog |-> usedLog]
       ELSE [player |-> [player EXCEPT !.health.current =
                           Min(player.health.currentMax, @ + amt)],
             consumables |-> [consumables EXCEPT ![k].quantity = @ - 1],
             usedLog |-> usedLog]

maybeUseConsumableNoLogs(player, consumables, usedLog) ==
  LET k == findHealItem(consumables)
      amt == IF k # 0 THEN getHealAmount(consumables[k].level) ELSE 0
  IN IF ~ratioBelowThreshold(player) \/ k = 0
       THEN [player |-> player, consumables |-> consumables,
             usedLog |-> usedLog]
       ELSE [player |-> [player EXCEPT !.health.current =
                           Min(player.health.currentMax, @ + amt)],
             consumables |-> [consumables EXCEPT ![k].quantity = @ - 1],
             usedLog |-> Append(usedLog, usedLogEntry(consumables[k]))]

\* ------------------------------------------------------------------- loot

\* lootProbability of exampleUsage.ts, the weight function callers pass
lootProbability(loot) ==
  CASE loot.RARITY_CID = 0 -> 40
    [] loot.RARITY_CID = 1 -> 20
    [] loot.RARITY_CID = 2 -> 10
    [] loot.RARITY_CID = 3 -> 5
    [] loot.RARITY_CID = 4 -> 2
    [] OTHER -> 1

lootWeight(loot, lootProbaFn) ==
  IF lootProbaFn = "lootProbability" THEN lootProbability(loot) ELSE 1

RECURSIVE runningWeight(_, _)
runningWeight(poolCopy, j) ==
  IF j = 0 THEN 0 ELSE runningWeight(poolCopy, j - 1) + poolCopy[j].weight

\* the inner walk of pickRandomLoots: first j (from 0) with r <= running,
\* r = randomFn() * total; pickIndex stays 0 when no j qualifies
pickIndexOf(poolCopy, d) ==
  LET total == runningWeight(poolCopy, Len(poolCopy))
      hits == {j \in 1 .. Len(poolCopy) :
                 d * total <= runningWeight(poolCopy, j) * RandDen}
  IN IF hits = {} THEN 0
     ELSE (CHOOSE j \in hits : \A h \in hits : j <= h) - 1

\* variant: the picked entry stays in the pool
spliceOutNothing(seq, idx) == seq

spliceOut(seq, idx) ==
  [k \in 1 .. (Len(seq) - 1) |-> IF k <= idx THEN seq[k] ELSE seq[k + 1]]

RECURSIVE pickLoop(_, _, _, _, _)
pickLoop(poolCopy, results, i, count, draws) ==
  IF ~(i < count /\ Len(poolCopy) > 0)
    THEN results
    ELSE Then(pickIndexOf(poolCopy, draws[i + 1]), LAMBDA pickIndex :
         Then(Append(results, poolCopy[pickIndex + 1].loot), LAMBDA pushed :
         Then(spliceOut(poolCopy, pickIndex), LAMBDA spliced :
           pickLoop(spliced, pushed, i + 1, count, draws))))

pickRandomLoots(lootPool, count, draws, lootProbaFn) ==
  IF Len(lootPool) = 0
    THEN <<>>
    ELSE Then([k \in 1 .. Len(lootPool) |->
                 [loot |-> lootPool[k],
                  weight |-> lootWeight(lootPool[k], lootProbaFn)]],
              LAMBDA weighted : pickLoop(weighted, <<>>, 0, count, draws))

\* what is left of poolCopy when the loop of pickRandomLoots is over
RECURSIVE pickLoopRest(_, _, _, _)
pickLoopRest(poolCopy, i, count, draws) ==
  IF ~(i < count /\ Len(poolCopy) > 0)
    THEN poolCopy
    ELSE Then(pickIndexOf(poolCopy, draws[i + 1]), LAMBDA pickIndex :
         Then(spliceOut(poolCopy, pickIndex), LAMBDA spliced :
           pickLoopRest(spliced, i + 1, count, draws)))

\* variant: the options are spliced out of the pool itself
lootPoolAfterPickSpliced(lootPool, count, draws, lootProbaFn) ==
  LET rest == pickLoopRest([k \in 1 .. Len(lootPool) |->
                              [loot |-> lootPool[k],
                               weight |-> lootWeight(lootPool[k],
                                                     lootProbaFn)]],
                           0, count, draws)
  IN [k \in 1 .. Len(rest) |-> rest[k].loot]

\* the caller's lootPool array once pickRandomLoots has returned:
\* lootPool.map builds a new array, [...weighted] copies that, and the
\* splices land on the copy
lootPoolAfterPick(lootPool, count, draws, lootProbaFn) == lootPool

\* variant: AddMaxArmor fills the shield up to its new maximum
applyLootEffectFillsShield(player, loot) ==
  LET boon == loot.boonTypeString
      v1 == loot.selectedVal1
      v2 == loot.selectedVal2
  IN CASE boon = "UpgradeRock" ->
            [player EXCEPT !.rock.currentATK = @ + v1,
                           !.rock.currentDEF = @ + v2]
       [] boon = "UpgradePaper" ->
            [player EXCEPT !.paper.currentATK = @ + v1,
                           !.paper.currentDEF = @ + v2]
       [] boon = "UpgradeScissor" ->
            [player EXCEPT !.scissor.currentATK = @ + v1,
                           !.scissor.currentDEF = @ + v2]
       [] boon = "Heal" ->
            [player EXCEPT !.health.current =
               Min(player.health.currentMax, @ + v1)]
       [] boon = "AddMaxArmor" ->
            [player EXCEPT !.shield.currentMax = @ + v1,
                           !.shield.current = player.shield.currentMax + v1]
       [] OTHER -> player

applyLootEffect(player, loot) ==
  LET boon == loot.boonTypeString
      v1 == loot.selectedVal1
      v2 == loot.selectedVal2
  IN CASE boon = "UpgradeRock" ->
            [player EXCEPT !.rock.currentATK = @ + v1,
                           !.rock.currentDEF = @ + v2]
       [] boon = "UpgradePaper" ->
            [player EXCEPT !.paper.currentATK = @ + v1,
                           !.paper.currentDEF = @ + v2]
       [] boon = "UpgradeScissor" ->
            [player EXCEPT !.scissor.currentATK = @ + v1,
                           !.scissor.currentDEF = @ + v2]
       [] boon = "Heal" ->
            [player EXCEPT !.health.current =
               Min(player.health.currentMax, @ + v1)]
       [] boon = "AddMaxArmor" ->
            [player EXCEPT !.shield.currentMax = @ + v1]
       [] OTHER -> player

applyLootEffectNoLogs(player, loot) ==
  LET boon == loot.boonTypeString
      v1 == loot.selectedVal1
      v2 == loot.selectedVal2
  IN IF boon = "UpgradeRock"
       THEN [player EXCEPT !.rock.currentATK = @ + v1,
                           !.rock.currentDEF = @ + v2]
     ELSE IF boon = "UpgradePaper"
       THEN [player EXCEPT !.paper.currentATK = @ + v1,
                           !.paper.currentDEF = @ + v2]
     ELSE IF boon = "UpgradeScissor"
       THEN [player EXCEPT !.scissor.currentATK = @ + v1,
                           !.scissor.currentDEF = @ + v2]
     ELSE IF boon = "Heal"
       THEN [player EXCEPT !.health.current =
               Min(player.health.currentMax, @ + v1)]
     ELSE IF boon = "AddMaxArmor"
       THEN [player EXCEPT !.shield.currentMax = @ + v1]
     ELSE player

\* the loot phase: draws are the randomFn() values of pickRandomLoots, in
\* order, dIdx the one that picks among the proposed.  chosen is <<>> for
\* null, <<loot>> otherwise.
simulateLootPhase(player, lootPool, draws, dIdx, lootProbaFn) ==
  IF Len(lootPool) = 0
    THEN [player |-> player, chosen |-> <<>>]
    ELSE Then(pickRandomLoots(lootPool, LootSampleCount, draws, lootProbaFn),
              LAMBDA proposed :
           IF Len(proposed) = 0
             THEN [player |-> player, chosen |-> <<>>]
             ELSE Then(proposed[FloorRand(dIdx, Len(proposed)) + 1],
                       LAMBDA chosen :
                    [player |-> applyLootEffect(player, chosen),
                     chosen |-> <<chosen>>]))

\* variant: a sample of fewer than 3 options is turned down
simulateLootPhaseNoLogsFullSample(player, lootPool, draws, dIdx, lootProbaFn) ==
  IF Len(lootPool) = 0
    THEN [player |-> player, chosen |-> <<>>]
    ELSE Then(pickRandomLoots(lootPool, LootSampleCount, draws, lootProbaFn),
              LAMBDA proposed :
           IF Len(proposed) < LootSampleCount
             THEN [player |-> player, chosen |-> <<>>]
             ELSE Then(proposed[FloorRand(dIdx, Len(proposed)) + 1],
                       LAMBDA chosen :
                    [player |-> applyLootEffectNoLogs(player, chosen),
                     chosen |-> <<chosen>>]))

simulateLootPhaseNoLogs(player, lootPool, draws, dIdx, lootProbaFn) ==
  IF Len(lootPool) = 0
    THEN [player |-> player, chosen |-> <<>>]
    ELSE Then(pickRandomLoots(lootPool, LootSampleCount, draws, lootProbaFn),
              LAMBDA proposed :
           IF Len(proposed) = 0
             THEN [player |-> player, chosen |-> <<>>]
             ELSE Then(proposed[FloorRand(dIdx, Len(proposed)) + 1],
                       LAMBDA chosen :
                    [player |-> applyLootEffectNoLogs(player, chosen),
                     chosen |-> <<chosen>>]))

\* ------------------------------------------------------------ battle round

\* variant: a hit that kills the enemy ends the round at once
simulateBattleShortCircuit(player, enemy, consumables, usedConsumablesLog, dp, de) ==
  Then(pickRandomMove(player, dp), LAMBDA playerMove :
  Then(pickRandomMove(enemy, de), LAMBDA enemyMove :
  Then(maybeUseConsumable(player, consumables, usedConsumablesLog), LAMBDA c :
  Then(computeRoundOutcome(c.player, enemy, playerMove, enemyMove),
       LAMBDA outcome :
  Then(applyDamageAndShield(outcome.dmgToEnemy, outcome.shieldGainPlayer,
                            c.player, enemy), LAMBDA a1 :
    IF a1.defender.health.current <= 0
      THEN [player |-> a1.attacker, enemy |-> a1.defender,
            consumables |-> c.consumables, usedLog |-> c.usedLog,
            playerMove |-> playerMove, enemyMove |-> enemyMove,
            returned |-> TRUE, playerWon |-> TRUE]
      ELSE
  Then(applyDamageAndShield(outcome.dmgToPlayer, outcome.shieldGainEnemy,
                            a1.defender, a1.attacker), LAMBDA a2 :
  Then(updateCharges(a2.defender, playerMove), LAMBDA p :
  Then(updateCharges(a2.attacker, enemyMove), LAMBDA e :
    [player |-> p, enemy |-> e, consumables |-> c.consumables,
     usedLog |-> c.usedLog, playerMove |-> playerMove,
     enemyMove |-> enemyMove,
     returned |-> (p.health.current <= 0 \/ e.health.current <= 0),
     playerWon |-> ~(p.health.current <= 0)]))))))))

\* variant: the enemy's death is checked before the player's
simulateBattleEnemyFirst(player, enemy, consumables, usedConsumablesLog, dp, de) ==
  Then(pickRandomMove(player, dp), LAMBDA playerMove :
  Then(pickRandomMove(enemy, de), LAMBDA enemyMove :
  Then(maybeUseConsumable(player, consumables, usedConsumablesLog), LAMBDA c :
  Then(computeRoundOutcome(c.player, enemy, playerMove, enemyMove),
       LAMBDA outcome :
  Then(applyDamageAndShield(outcome.dmgToEnemy, outcome.shieldGainPlayer,
                            c.player, enemy), LAMBDA a1 :
  Then(applyDamageAndShield(outcome.dmgToPlayer, outcome.shieldGainEnemy,
                            a1.defender, a1.attacker), LAMBDA a2 :
  Then(updateCharges(a2.defender, playerMove), LAMBDA p :
  Then(updateCharges(a2.attacker, enemyMove), LAMBDA e :
    [player |-> p, enemy |-> e, consumables |-> c.consumables,
     usedLog |-> c.usedLog, playerMove |-> playerMove,
     enemyMove |-> enemyMove,
     returned |-> (p.health.current <= 0 \/ e.health.current <= 0),
     playerWon |-> (e.health.current <= 0)]))))))))

\* one iteration of the while loop of simulateBattle: dp, de are the
\* randomFn() values of the two pickRandomMove calls, in call order.
\* returned tells whether the iteration ended in a return, playerWon its value.
simulateBattle(player, enemy, consumables, usedConsumablesLog, dp, de) ==
  Then(pickRandomMove(player, dp), LAMBDA playerMove :
  Then(pickRandomMove(enemy, de), LAMBDA enemyMove :
  Then(maybeUseConsumable(player, consumables, usedConsumablesLog), LAMBDA c :
  Then(computeRoundOutcome(c.player, enemy, playerMove, enemyMove),
       LAMBDA outcome :
  Then(applyDamageAndShield(outcome.dmgToEnemy, outcome.shieldGainPlayer,
                            c.player, enemy), LAMBDA a1 :
  Then(applyDamageAndShield(outcome.dmgToPlayer, outcome.shieldGainEnemy,
                            a1.defender, a1.attacker), LAMBDA a2 :
  Then(updateCharges(a2.defender, playerMove), LAMBDA p :
  Then(updateCharges(a2.attacker, enemyMove), LAMBDA e :
    [player |-> p, enemy |-> e, consumables |-> c.consumables,
     usedLog |-> c.usedLog, playerMove |-> playerMove,
     enemyMove |-> enemyMove,
     returned |-> (p.health.current <= 0 \/ e.health.current <= 0),
     playerWon |-> ~(p.health.current <= 0)]))))))))

\* variant: the battle is a single round, returned whatever it leaves
simulateBattleNoLogsSingleRound(player, enemy, consumables, usedLog, dp, de) ==
  Then(pickRandomMove(player, dp), LAMBDA playerMove :
  Then(pickRandomMove(enemy, de), LAMBDA enemyMove :
  Then(maybeUseConsumableNoLogs(player, consumables, usedLog), LAMBDA c :
  Then(computeRoundOutcome(c.player, enemy, playerMove, enemyMove),
       LAMBDA outcome :
  Then(applyDamageAndShield(outcome.dmgToEnemy, outcome.shieldGainPlayer,
                            c.player, enemy), LAMBDA a1 :
  Then(applyDamageAndShield(outcome.dmgToPlayer, outcome.shieldGainEnemy,
                            a1.defender, a1.attacker), LAMBDA a2 :
  Then(updateCharges(a2.defender, playerMove), LAMBDA p :
  Then(updateCharges(a2.attacker, enemyMove), LAMBDA e :
    [player |-> p, enemy |-> e, consumables |-> c.consumables,
     usedLog |-> c.usedLog, playerMove |-> playerMove,
     enemyMove |-> enemyMove,
     returned |-> TRUE,
     playerWon |-> ~(p.health.current <= 0)]))))))))

simulateBattleNoLogs(player, enemy, consumables, usedLog, dp, de) ==
  Then(pickRandomMove(player, dp), LAMBDA playerMove :
  Then(pickRandomMove(enemy, de), LAMBDA enemyMove :
  Then(maybeUseConsumableNoLogs(player, consumables, usedLog), LAMBDA c :
  Then(computeRoundOutcome(c.player, enemy, playerMove, enemyMove),
       LAMBDA outcome :
  Then(applyDamageAndShield(outcome.dmgToEnemy, outcome.shieldGainPlayer,
                            c.player, enemy), LAMBDA a1 :
  Then(applyDamageAndShield(outcome.dmgToPlayer, outcome.shieldGainEnemy,
                            a1.defender, a1.attacker), LAMBDA a2 :
  Then(updateCharges(a2.defender, playerMove), LAMBDA p :
  Then(updateCharges(a2.attacker, enemyMove), LAMBDA e :
    [player |-> p, enemy |-> e, consumables |-> c.consumables,
     usedLog |-> c.usedLog, playerMove |-> playerMove,
     enemyMove |-> enemyMove,
     returned |-> (p.health.current <= 0 \/ e.health.current <= 0),
     playerWon |-> ~(p.health.current <= 0)]))))))))

\* variant: a generator seeded from config.randomSeed when it is given
randomFnSeeded(cfg, d) ==
  IF cfg.randomSeed # Undefined THEN (d + cfg.randomSeed) % RandDen ELSE d

\* const randomFn = () => Math.random() of simulateRun /
\* simulateRunNoLogs: the value it returns when Math.random() returns d
randomFn(cfg, d) == d

\* limit of simulateRun: a falsy maxEnemiesToFight (undefined or 0) means
\* the whole roster
simulateRunLimit(maxEnemiesToFight, rosterLength) ==
  IF maxEnemiesToFight # Undefined /\ maxEnemiesToFight # 0
    THEN Min(maxEnemiesToFight, rosterLength)
    ELSE rosterLength

simulateRunNoLogsLimit(maxEnemiesToFight, rosterLength) ==
  IF maxEnemiesToFight = Undefined \/ maxEnemiesToFight = 0
    THEN rosterLength
    ELSE Min(maxEnemiesToFight, rosterLength)

\* the limit of the run with config cfg
LimitOfRun(cfg, det) ==
  IF det
    THEN simulateRunLimit(cfg.maxEnemiesToFight, Len(cfg.enemies))
    ELSE simulateRunNoLogsLimit(cfg.maxEnemiesToFight, Len(cfg.enemies))

\* variant: the player is handed on by reference
clonePlayerByReference(p) == p

\* clonePlayer = JSON.parse(JSON.stringify(p)): the reference it returns is
\* a new object, never p itself
clonePlayer(p) == "playerClone"

\* ------------------------------------------------------- configurations

mv(atk, def, charges, maxCharges) ==
  [startingATK |-> atk, startingDEF |-> def,
   currentATK |-> atk, currentDEF |-> def,
   currentCharges |-> charges, maxCharges |-> maxCharges]

mkPlayer(id, hp, hpMax, sh, shMax, rock, paper, scissor) ==
  [id |-> id,
   health |-> [current |-> hp, currentMax |-> hpMax,
               starting |-> hpMax, startingMax |-> hpMax],
   shield |-> [current |-> sh, currentMax |-> shMax,
               starting |-> shMax, startingMax |-> shMax],
   rock |-> rock, paper |-> paper, scissor |-> scissor]

\* the player of exampleUsage.ts, scaled down: strong rock, paper without
\* attack, full charges
PlayerExample ==
  mkPlayer("example", 3, 3, 0, 1, mv(3, 1, 3, 3), mv(0, 1, 3, 3),
           mv(1, 1, 3, 3))
\* one charge per move
PlayerQuick ==
  mkPlayer("quick", 3, 3, 0, 1, mv(3, 1, 1, 1), mv(1, 0, 1, 1),
           mv(1, 1, 1, 1))
\* HP 2 of 20, one move spent, one move penalised
PlayerWounded ==
  mkPlayer("wounded", 2, 20, 0, 1, mv(2, 0, 2, 2), mv(2, 1, 0, 2),
           mv(2, 1, -1, 2))
\* the same at HP 6 of 20: the ratio is exactly 0.30
PlayerBorderline == [PlayerWounded EXCEPT !.health.current = 6]
\* no attack at all; scissor has no charge and cannot get one
PlayerPacifist ==
  mkPlayer("pacifist", 2, 2, 0, 1, mv(0, 1, 1, 1), mv(0, 1, 1, 1),
           mv(0, 0, 0, 0))
\* already at 0 HP
PlayerDead ==
  mkPlayer("dead", 0, 3, 0, 0, mv(1, 0, 1, 1), mv(1, 0, 1, 1),
           mv(1, 0, 1, 1))

\* rock and scissor with DEF, paper without; the enemy below has the same
\* stats move by move
PlayerMirror ==
  mkPlayer("mirror", 3, 3, 0, 1, mv(2, 1, 1, 1), mv(2, 0, 1, 1),
           mv(2, 1, 1, 1))

\* HP 1 of 4
PlayerHurt ==
  mkPlayer("hurt", 1, 4, 0, 1, mv(3, 1, 1, 1), mv(1, 0, 1, 1),
           mv(1, 1, 1, 1))

\* the same with the shield full, as the enemy's is
PlayerShielded == [PlayerMirror EXCEPT !.shield.current = 1]

mkEnemy(id, arr) == [ID_CID |-> id, MOVE_STATS_CID_array |-> arr]

EnemyWeak == mkEnemy("weak", <<1, 0, 1, 0, 1, 0, 2, 0>>)
EnemyGuard == mkEnemy("guard", <<2, 1, 2, 1, 2, 1, 2, 1>>)
EnemyGlass == mkEnemy("glass", <<5, 0, 5, 0, 5, 0, 1, 0>>)
EnemyBrute == mkEnemy("brute", <<4, 0, 4, 0, 4, 0, 2, 0>>)
\* no stat entries at all: every stat, HP included, defaults to 0
EnemyMalformed == mkEnemy("malformed", <<>>)
\* no attack (one entry null), shield and HP
EnemyWall == mkEnemy("wall", <<0, 1, Undefined, 1, 0, 1, 3, 1>>)

EnemyMirror == mkEnemy("mirror", <<2, 1, 2, 0, 2, 1, 3, 1>>)

ConsumablesExample ==
  << [name |-> "heal", level |-> 2, quantity |-> 1],
     [name |-> "damage", level |-> 1, quantity |-> 1] >>

\* an item of another kind first, a heal that is used up, then heals of
\* level 1 and 3
ConsumablesLevels ==
  << [name |-> "damage", level |-> 3, quantity |-> 2],
     [name |-> "heal", level |-> 3, quantity |-> 0],
     [name |-> "heal", level |-> 1, quantity |-> 1],
     [name |-> "heal", level |-> 3, quantity |-> 1] >>

mkLoot(docId, rarity, boon, v1, v2) ==
  [docId |-> docId, RARITY_CID |-> rarity, boonTypeString |-> boon,
   selectedVal1 |-> v1, selectedVal2 |-> v2]

LootPoolExample ==
  << mkLoot("loot_upRock", 1, "UpgradeRock", 1, 0),
     mkLoot("loot_upPaper", 0, "UpgradePaper", 2, 0),
     mkLoot("loot_heal", 0, "Heal", 6, 0),
     mkLoot("loot_addMaxArmor", 1, "AddMaxArmor", 3, 0) >>

LootPoolSingle == << mkLoot("loot_upScissor", 2, "UpgradeScissor", 1, 1) >>

\* a heal and a boon of a kind applyLootEffect does not know
LootPoolKinds ==
  << mkLoot("loot_heal2", 0, "Heal", 2, 0),
     mkLoot("loot_unknown", 0, "Unknown", 2, 2) >>

mkConfig(player, enemies, consumables, lootPool, lootProbaFn, cap) ==
  [player |-> player, enemies |-> enemies,
   availableConsumables |-> consumables, lootPool |-> lootPool,
   lootProbaFn |-> lootProbaFn, maxEnemiesToFight |-> cap]

\* full charges on both sides, with and without enemy shield
ChargeConfigs ==
  { mkConfig(PlayerExample, <<e>>, <<>>, <<>>, "none", Undefined) :
      e \in {EnemyWeak, EnemyGuard} }

\* two real battles with a loot phase in between
TwoBattleConfigs ==
  { mkConfig(PlayerQuick, <<EnemyWeak, EnemyWeak>>, <<>>, LootPoolSingle,
             "none", Undefined) }

\* one round decides the battle (a tie kills both); two loot phases follow
LootConfigs ==
  { mkConfig(PlayerQuick, <<EnemyGlass, EnemyMalformed, EnemyMalformed>>,
             <<>>, LootPoolExample, f, Undefined) :
      f \in {"none", "lootProbability"} }

\* the cap, from absent to larger than the roster
CapConfigs ==
  { mkConfig(PlayerQuick, <<EnemyMalformed, EnemyWeak, EnemyMalformed>>,
             <<>>, LootPoolSingle, "none", cap) :
      cap \in {Undefined, 0, 1, 2, 4} }

\* a wounded player with the consumables of exampleUsage.ts
\* rock without ATK and DEF (null entries), HP 1, shield 1
EnemyPartial ==
  mkEnemy("partial", <<Undefined, Undefined, 0, 0, 0, 0, 1, 1>>)

HealConfigs ==
  { mkConfig(PlayerWounded, <<EnemyBrute>>, ConsumablesExample, <<>>,
             "none", Undefined),
    mkConfig(PlayerWounded, <<EnemyBrute>>, ConsumablesLevels, <<>>,
             "none", Undefined),
    mkConfig(PlayerBorderline, <<EnemyBrute>>, ConsumablesLevels, <<>>,
             "none", Undefined) }

\* nobody can hurt anybody
StallConfigs ==
  { mkConfig(PlayerPacifist, <<EnemyWall>>, <<>>, <<>>, "none", Undefined) }

\* both sides with the same ATK and DEF on every move
TieConfigs ==
  { mkConfig(p, <<EnemyMirror>>, <<>>, <<>>, "none", Undefined) :
      p \in {PlayerMirror, PlayerShielded} }

\* a battle won with another enemy upcoming and no loot to pick
NoLootConfigs ==
  { mkConfig(PlayerQuick, <<EnemyGlass, EnemyMalformed>>, <<>>, <<>>, "none",
             Undefined) }

\* an enemy with null stat entries that has to be fought
MalformedConfigs ==
  { mkConfig(PlayerQuick, <<EnemyPartial>>, <<>>, <<>>, "none", Undefined) }

\* a hurt player walking through two loot phases
LootKindConfigs ==
  { mkConfig(PlayerHurt, <<EnemyMalformed, EnemyMalformed, EnemyMalformed>>,
             <<>>, LootPoolKinds, "none", Undefined) }

EdgeConfigs ==
  { mkConfig(PlayerQuick, <<>>, <<>>, LootPoolSingle, "none", Undefined),
    mkConfig(PlayerDead, <<EnemyWeak>>, ConsumablesExample, <<>>, "none",
             Undefined) }

Configs ==
  ChargeConfigs \cup TwoBattleConfigs \cup LootConfigs \cup CapConfigs
    \cup HealConfigs \cup StallConfigs \cup EdgeConfigs \cup TieConfigs
    \cup NoLootConfigs \cup LootKindConfigs \cup MalformedConfigs

\* values of config.randomSeed: absent, or a number
Seeds == {Undefined, 7}

\* the configurations that are also run with a randomSeed
SeededConfigs == TwoBattleConfigs \cup HealConfigs

\* the configurations simulateMultipleRuns is called on with runsCount > 1
MultiRunConfigs == HealConfigs \cup EdgeConfigs

\* ------------------------------------------------------------------ state

VARIABLES
  config,               \* the caller's SimulationRunConfig (player: a reference)
  runsCount, detailed,  \* arguments of simulateMultipleRuns
  objects,              \* heap of Player objects, by reference
  availableConsumables, \* config.availableConsumables, the caller's array
  playerClone,          \* reference held by the run
  enemiesAsPlayers, usedConsumables, lootPickedLog, limit, i, enemiesDefeated,
  pc,                   \* "idle", "for", "while", "battleReturned", "returned", "done"
  playerWon,            \* value returned by the last battle
  playerMove, enemyMove, \* the moves of the last round of the battle
  result,               \* SimulationResult of the last run that returned
  runIndex, totalEnemiesDefeated, survivedCount,
  firstRun              \* history: the state the first run started from

VARIABLES
  currentActionToken,   \* GameClient.currentActionToken
  inFlight,             \* the calls awaiting their POST, by slot
  settled               \* how the last call that settled ended

simVars == << config, runsCount, detailed, objects, availableConsumables,
              playerClone, enemiesAsPlayers, usedConsumables, lootPickedLog,
              limit, i, enemiesDefeated, pc, playerWon, playerMove,
              enemyMove, result, runIndex, totalEnemiesDefeated,
              survivedCount, firstRun >>

clientVars == << currentActionToken, inFlight, settled >>

vars == << simVars, clientVars >>

ConfigPlayerRef == "config.player"
NullRef == "null"

\* no round fought yet in the battle
NoMove == "none"

NoResult ==
  [enemiesDefeated |-> 0, survived |-> FALSE, finalPlayerStats |-> NullRef,
   usedConsumables |-> <<>>, lootPickedLog |-> <<>>]

SimInit ==
  /\ \E cfg \in Configs :
       /\ runsCount \in 1 .. MaxRuns
       /\ runsCount = 1 \/ cfg \in MultiRunConfigs
       /\ \E seed \in Seeds :
            /\ seed = Undefined \/ cfg \in SeededConfigs
            /\ config = [enemies |-> cfg.enemies, lootPool |-> cfg.lootPool,
                         lootProbaFn |-> cfg.lootProbaFn,
                         maxEnemiesToFight |-> cfg.maxEnemiesToFight,
                         randomSeed |-> seed,
                         player |-> ConfigPlayerRef]
       /\ objects = [a \in {ConfigPlayerRef} |-> cfg.player]
       /\ availableConsumables = cfg.availableConsumables
  /\ detailed \in BOOLEAN
  /\ playerClone = NullRef
  /\ enemiesAsPlayers = <<>>
  /\ usedConsumables = <<>>
  /\ lootPickedLog = <<>>
  /\ limit = 0
  /\ i = 0
  /\ enemiesDefeated = 0
  /\ pc = "idle"
  /\ playerWon = FALSE
  /\ playerMove = NoMove
  /\ enemyMove = NoMove
  /\ result = NoResult
  /\ runIndex = 0
  /\ totalEnemiesDefeated = 0
  /\ survivedCount = 0
  /\ firstRun = <<>>

\* values of a token (string | number): numbers, and strings, of which ""
Null == -1
EmptyString == -2
Tokens == (0 .. MaxToken) \cup {EmptyString}
Slots == 1 .. MaxInFlight

NoCall == [method |-> "none", payloadToken |-> Undefined,
           actionToken |-> Undefined]
NoOutcome == [method |-> "none", ok |-> FALSE, actionToken |-> Undefined]

\* new GameClient(baseUrl, authToken)
ClientNew ==
  /\ currentActionToken = Null
  /\ inFlight = [s \in Slots |-> NoCall]
  /\ settled = NoOutcome

Init == SimInit /\ ClientNew

\* the run's working player and the enemy of the current battle
Player == objects[playerClone]
Enemy == enemiesAsPlayers[i + 1]

\* the heap after storing value at reference ref
Store(heap, ref, value) ==
  [a \in DOMAIN heap \cup {ref} |-> IF a = ref THEN value ELSE heap[a]]

\* ---------------------------------------------------------------- actions

\* simulateMultipleRuns, loop body up to the call; simulateRun /
\* simulateRunNoLogs up to the for loop
StartRun ==
  /\ pc = "idle"
  /\ runIndex < runsCount
  /\ \E ref \in {clonePlayer(config.player)},
        converted \in {[k \in 1 .. Len(config.enemies) |->
                          convertEnemyToPlayer(config.enemies[k])]} :
      \E heap \in {Store(objects, ref, objects[config.player])} :
        /\ objects' = heap
        /\ playerClone' = ref
        /\ enemiesAsPlayers' = converted
        /\ firstRun' = IF runIndex = 0
                         THEN << [player |-> heap[ref],
                                  enemies |-> converted,
                                  consumables |-> availableConsumables] >>
                         ELSE firstRun
  /\ usedConsumables' = <<>>
  /\ lootPickedLog' = <<>>
  /\ limit' = LimitOfRun(config, detailed)
  /\ i' = 0
  /\ enemiesDefeated' = 0
  /\ pc' = "for"
  /\ UNCHANGED << playerMove, enemyMove >>
  /\ UNCHANGED clientVars
  /\ UNCHANGED << config, runsCount, detailed, availableConsumables,
                  playerWon, result, runIndex, totalEnemiesDefeated,
                  survivedCount >>

\* for (i < limit): the battle against enemiesAsPlayers[i] is entered
EnterBattle ==
  /\ pc = "for"
  /\ i < limit
  /\ pc' = "while"
  /\ UNCHANGED << playerMove, enemyMove >>
  /\ UNCHANGED clientVars
  /\ UNCHANGED << config, runsCount, detailed, objects, availableConsumables,
                  playerClone, enemiesAsPlayers, usedConsumables,
                  lootPickedLog, limit, i, enemiesDefeated, playerWon, result,
                  runIndex, totalEnemiesDefeated, survivedCount, firstRun >>

\* the while loop of the battle is left without a round: return HP > 0
BattleLoopExit ==
  /\ pc = "while"
  /\ ~(Player.health.current > 0 /\ Enemy.health.current > 0)
  /\ playerWon' = (Player.health.current > 0)
  /\ pc' = "battleReturned"
  /\ UNCHANGED << playerMove, enemyMove >>
  /\ UNCHANGED clientVars
  /\ UNCHANGED << config, runsCount, detailed, objects, availableConsumables,
                  playerClone, enemiesAsPlayers, usedConsumables,
                  lootPickedLog, limit, i, enemiesDefeated, result,
                  runIndex, totalEnemiesDefeated, survivedCount, firstRun >>

RoundOf(det, player, enemy, consumables, usedLog, dp, de) ==
  IF det
    THEN simulateBattle(player, enemy, consumables, usedLog, dp, de)
    ELSE simulateBattleNoLogs(player, enemy, consumables, usedLog, dp, de)

\* the round as the run with config cfg fights it when Math.random()
\* returns dp, then de
RoundOfRun(cfg, det, player, enemy, consumables, usedLog, dp, de) ==
  RoundOf(det, player, enemy, consumables, usedLog, randomFn(cfg, dp),
          randomFn(cfg, de))

\* variant: the loop tests the enemy's HP after the round only (do-while)
BattleRoundDoWhile(dp, de) ==
  /\ pc = "while"
  /\ Player.health.current > 0
  /\ \E r \in {RoundOfRun(config, detailed, Player, Enemy,
                           availableConsumables, usedConsumables, dp, de)} :
        /\ objects' = Store(objects, playerClone, r.player)
        /\ enemiesAsPlayers' =
             [k \in 1 .. Len(enemiesAsPlayers) |->
                IF convertedObject(k, config.enemies)
                     = convertedObject(i + 1, config.enemies)
                  THEN r.enemy ELSE enemiesAsPlayers[k]]
        /\ availableConsumables' = r.consumables
        /\ usedConsumables' = r.usedLog
        /\ pc' = IF r.returned THEN "battleReturned" ELSE "while"
        /\ playerWon' = IF r.returned THEN r.playerWon ELSE playerWon
        /\ playerMove' = r.playerMove
        /\ enemyMove' = r.enemyMove
  /\ UNCHANGED clientVars
  /\ UNCHANGED << config, runsCount, detailed, playerClone, lootPickedLog,
                  limit, i, enemiesDefeated, result, runIndex,
                  totalEnemiesDefeated, survivedCount, firstRun >>

\* one round of simulateBattle / simulateBattleNoLogs
BattleRound(dp, de) ==
  /\ pc = "while"
  /\ Player.health.current > 0 /\ Enemy.health.current > 0
  /\ \E r \in {RoundOfRun(config, detailed, Player, Enemy,
                           availableConsumables, usedConsumables, dp, de)} :
        /\ objects' = Store(objects, playerClone, r.player)
        /\ enemiesAsPlayers' =
             [k \in 1 .. Len(enemiesAsPlayers) |->
                IF convertedObject(k, config.enemies)
                     = convertedObject(i + 1, config.enemies)
                  THEN r.enemy ELSE enemiesAsPlayers[k]]
        /\ availableConsumables' = r.consumables
        /\ usedConsumables' = r.usedLog
        /\ pc' = IF r.returned THEN "battleReturned" ELSE "while"
        /\ playerWon' = IF r.returned THEN r.playerWon ELSE playerWon
        /\ playerMove' = r.playerMove
        /\ enemyMove' = r.enemyMove
  /\ UNCHANGED clientVars
  /\ UNCHANGED << config, runsCount, detailed, playerClone, lootPickedLog,
                  limit, i, enemiesDefeated, result, runIndex,
                  totalEnemiesDefeated, survivedCount, firstRun >>

\* variant: the enemy that defeated the player is counted as well
runResultCountsLastEnemy(defeated, survived, finalPlayerStats, used, lootLog) ==
  [enemiesDefeated |-> IF survived THEN defeated ELSE defeated + 1,
   survived |-> survived,
   finalPlayerStats |-> finalPlayerStats, usedConsumables |-> used,
   lootPickedLog |-> lootLog]

runResult(defeated, survived, finalPlayerStats, used, lootLog) ==
  [enemiesDefeated |-> defeated, survived |-> survived,
   finalPlayerStats |-> finalPlayerStats, usedConsumables |-> used,
   lootPickedLog |-> lootLog]

\* variant: the enemy is counted before the battle's result is looked at
PlayerDefeatedAfterCount ==
  /\ pc = "battleReturned"
  /\ ~playerWon
  /\ result' = runResult(enemiesDefeated + 1, FALSE, playerClone,
                         usedConsumables, lootPickedLog)
  /\ pc' = "returned"
  /\ playerMove' = NoMove
  /\ enemyMove' = NoMove
  /\ UNCHANGED clientVars
  /\ UNCHANGED << config, runsCount, detailed, objects, availableConsumables,
                  playerClone, enemiesAsPlayers, usedConsumables,
                  lootPickedLog, limit, i, enemiesDefeated, playerWon,
                  runIndex, totalEnemiesDefeated, survivedCount, firstRun >>

\* if (!playerWon) return {...survived: false}
PlayerDefeated ==
  /\ pc = "battleReturned"
  /\ ~playerWon
  /\ result' = runResult(enemiesDefeated, FALSE, playerClone,
                         usedConsumables, lootPickedLog)
  /\ pc' = "returned"
  /\ playerMove' = NoMove
  /\ enemyMove' = NoMove
  /\ UNCHANGED clientVars
  /\ UNCHANGED << config, runsCount, detailed, objects, availableConsumables,
                  playerClone, enemiesAsPlayers, usedConsumables,
                  lootPickedLog, limit, i, enemiesDefeated, playerWon,
                  runIndex, totalEnemiesDefeated, survivedCount, firstRun >>

LootPhaseOf(det, player, lootPool, draws, dIdx, lootProbaFn) ==
  IF det
    THEN simulateLootPhase(player, lootPool, draws, dIdx, lootProbaFn)
    ELSE simulateLootPhaseNoLogs(player, lootPool, draws, dIdx, lootProbaFn)

\* variant: a loot phase after every victory, the last one included
lootFollowsEveryVictory(k, lim) == k < lim

\* the loot phase as the run with config cfg goes through it when
\* Math.random() returns draws, then dIdx
LootPhaseOfRun(cfg, det, player, draws, dIdx) ==
  LootPhaseOf(det, player, cfg.lootPool,
              [k \in 1 .. LootSampleCount |-> randomFn(cfg, draws[k])],
              randomFn(cfg, dIdx), cfg.lootProbaFn)

\* config.lootPool after the loot phase of the run with config cfg, when
\* Math.random() returns draws
LootPoolOfRun(cfg, draws) ==
  lootPoolAfterPick(cfg.lootPool, LootSampleCount,
                    [k \in 1 .. LootSampleCount |-> randomFn(cfg, draws[k])],
                    cfg.lootProbaFn)

\* whether the for loop body runs a loot phase after the victory at index k
lootFollows(k, lim) == k < lim - 1

\* enemiesDefeated++, the loot phase when another enemy is upcoming, i++
BattleWon(draws, dIdx) ==
  /\ pc = "battleReturned"
  /\ playerWon
  /\ enemiesDefeated' = enemiesDefeated + 1
  /\ IF lootFollows(i, limit)
       THEN \E l \in {LootPhaseOfRun(config, detailed, Player, draws, dIdx)} :
               /\ objects' = Store(objects, playerClone, l.player)
               /\ lootPickedLog' = lootPickedLog \o l.chosen
               /\ config' = [config EXCEPT !.lootPool =
                                LootPoolOfRun(config, draws)]
       ELSE UNCHANGED << objects, lootPickedLog, config >>
  /\ i' = i + 1
  /\ pc' = "for"
  /\ playerMove' = NoMove
  /\ enemyMove' = NoMove
  /\ UNCHANGED clientVars
  /\ UNCHANGED << runsCount, detailed, availableConsumables,
                  playerClone, enemiesAsPlayers, usedConsumables, limit,
                  playerWon, result, runIndex, totalEnemiesDefeated,
                  survivedCount, firstRun >>

\* variant: survival is reported only when an enemy was defeated
RunSurvivedIfAnyDefeated ==
  /\ pc = "for"
  /\ ~(i < limit)
  /\ result' = runResult(enemiesDefeated, enemiesDefeated > 0, playerClone,
                         usedConsumables, lootPickedLog)
  /\ pc' = "returned"
  /\ UNCHANGED << playerMove, enemyMove >>
  /\ UNCHANGED clientVars
  /\ UNCHANGED << config, runsCount, detailed, objects, availableConsumables,
                  playerClone, enemiesAsPlayers, usedConsumables,
                  lootPickedLog, limit, i, enemiesDefeated, playerWon,
                  runIndex, totalEnemiesDefeated, survivedCount, firstRun >>

\* the for loop is over: return {...survived: true}
RunSurvived ==
  /\ pc = "for"
  /\ ~(i < limit)
  /\ result' = runResult(enemiesDefeated, TRUE, playerClone, usedConsumables,
                         lootPickedLog)
  /\ pc' = "returned"
  /\ UNCHANGED << playerMove, enemyMove >>
  /\ UNCHANGED clientVars
  /\ UNCHANGED << config, runsCount, detailed, objects, availableConsumables,
                  playerClone, enemiesAsPlayers, usedConsumables,
                  lootPickedLog, limit, i, enemiesDefeated, playerWon,
                  runIndex, totalEnemiesDefeated, survivedCount, firstRun >>

\* simulateMultipleRuns adds the result up and goes to the next run
Aggregate ==
  /\ pc = "returned"
  /\ totalEnemiesDefeated' = totalEnemiesDefeated + result.enemiesDefeated
  /\ survivedCount' = IF result.survived THEN survivedCount + 1
                      ELSE survivedCount
  /\ runIndex' = runIndex + 1
  /\ pc' = IF runIndex + 1 < runsCount THEN "idle" ELSE "done"
  /\ UNCHANGED << playerMove, enemyMove >>
  /\ UNCHANGED clientVars
  /\ UNCHANGED << config, runsCount, detailed, objects, availableConsumables,
                  playerClone, enemiesAsPlayers, usedConsumables,
                  lootPickedLog, limit, i, enemiesDefeated, playerWon, result,
                  firstRun >>

DrawSeqs == [1 .. LootSampleCount -> Draws]

Next ==
  \/ StartRun
  \/ EnterBattle
  \/ BattleLoopExit
  \/ \E dp \in Draws, de \in Draws : BattleRound(dp, de)
  \/ PlayerDefeated
  \/ \E draws \in DrawSeqs, dIdx \in Draws : BattleWon(draws, dIdx)
  \/ RunSurvived
  \/ Aggregate

Spec == Init /\ [][Next]_vars

\* The random source is fair: while a battle lasts, every pair of draws
\* comes up again and again.  A round is enabled for every pair of draws as
\* long as the battle lasts, whatever the draws, so weak fairness per pair
\* says exactly that.  Every other step is taken when it can be.
FairSpec ==
  /\ Spec
  /\ WF_vars(StartRun) /\ WF_vars(EnterBattle) /\ WF_vars(BattleLoopExit)
  /\ WF_vars(PlayerDefeated) /\ WF_vars(RunSurvived) /\ WF_vars(Aggregate)
  /\ WF_vars(\E draws \in DrawSeqs, dIdx \in Draws : BattleWon(draws, dIdx))
  /\ \A dp \in Draws, de \in Draws : WF_vars(BattleRound(dp, de))

\* ------------------------------------------------------------ GameClient

\* if (response.actionToken): undefined, null, 0 and "" are falsy
truthy(t) == t \notin {Undefined, Null, 0, EmptyString}

\* the continuation of startRun / playMove / useItem after the awaited POST:
\* the token the client holds once the response is in
storeResponseToken(current, responseToken) ==
  IF truthy(responseToken) THEN responseToken ELSE current

\* variant: || in place of ??, a falsy token counts as absent
finalTokenTruthy(payloadToken, current) ==
  IF truthy(payloadToken) THEN payloadToken
  ELSE IF truthy(current) THEN current
  ELSE EmptyString

\* payload.actionToken ?? this.currentActionToken ?? ""
finalToken(payloadToken, current) ==
  IF payloadToken # Undefined /\ payloadToken # Null THEN payloadToken
  ELSE IF current # Undefined /\ current # Null THEN current
  ELSE EmptyString

getActionToken == currentActionToken

SetActionToken(token) ==
  /\ currentActionToken' = token
  /\ UNCHANGED << inFlight, settled >>
  /\ UNCHANGED simVars

\* a call up to its await: the request leaves with body.actionToken
StartRunCall(s, payloadToken) ==
  /\ inFlight[s] = NoCall
  /\ inFlight' = [inFlight EXCEPT ![s] =
                    [method |-> "startRun", payloadToken |-> payloadToken,
                     actionToken |-> payloadToken]]
  /\ UNCHANGED << currentActionToken, settled >>
  /\ UNCHANGED simVars

PlayMoveCall(s, payloadToken) ==
  /\ inFlight[s] = NoCall
  /\ inFlight' = [inFlight EXCEPT ![s] =
                    [method |-> "playMove", payloadToken |-> payloadToken,
                     actionToken |-> finalToken(payloadToken, currentActionToken)]]
  /\ UNCHANGED << currentActionToken, settled >>
  /\ UNCHANGED simVars

UseItemCall(s, payloadToken) ==
  /\ inFlight[s] = NoCall
  /\ inFlight' = [inFlight EXCEPT ![s] =
                    [method |-> "useItem", payloadToken |-> payloadToken,
                     actionToken |-> finalToken(payloadToken, currentActionToken)]]
  /\ UNCHANGED << currentActionToken, settled >>
  /\ UNCHANGED simVars

\* the POST of the call in slot s resolves with a response whose
\* actionToken is responseToken (Undefined: the field is absent)
StartRunReturns(s, responseToken) ==
  /\ inFlight[s].method = "startRun"
  /\ currentActionToken' =
       storeResponseToken(currentActionToken, responseToken)
  /\ settled' = [method |-> "startRun", ok |-> TRUE,
                 actionToken |-> responseToken]
  /\ inFlight' = [inFlight EXCEPT ![s] = NoCall]
  /\ UNCHANGED simVars

PlayMoveReturns(s, responseToken) ==
  /\ inFlight[s].method = "playMove"
  /\ currentActionToken' =
       storeResponseToken(currentActionToken, responseToken)
  /\ settled' = [method |-> "playMove", ok |-> TRUE,
                 actionToken |-> responseToken]
  /\ inFlight' = [inFlight EXCEPT ![s] = NoCall]
  /\ UNCHANGED simVars

UseItemReturns(s, responseToken) ==
  /\ inFlight[s].method = "useItem"
  /\ currentActionToken' =
       storeResponseToken(currentActionToken, responseToken)
  /\ settled' = [method |-> "useItem", ok |-> TRUE,
                 actionToken |-> responseToken]
  /\ inFlight' = [inFlight EXCEPT ![s] = NoCall]
  /\ UNCHANGED simVars

\* variant: a failed call drops the stored token
PostFailsClearsToken(s) ==
  /\ inFlight[s] # NoCall
  /\ settled' = [method |-> inFlight[s].method, ok |-> FALSE,
                 actionToken |-> Undefined]
  /\ inFlight' = [inFlight EXCEPT ![s] = NoCall]
  /\ currentActionToken' = Null
  /\ UNCHANGED simVars

\* HttpClient.post: the response is not ok, the call throws
PostFails(s) ==
  /\ inFlight[s] # NoCall
  /\ settled' = [method |-> inFlight[s].method, ok |-> FALSE,
                 actionToken |-> Undefined]
  /\ inFlight' = [inFlight EXCEPT ![s] = NoCall]
  /\ UNCHANGED currentActionToken
  /\ UNCHANGED simVars

ResponseTokens == Tokens \cup {Undefined}
PayloadTokens == Tokens \cup {Undefined}

ClientNext ==
  \/ \E token \in Tokens : SetActionToken(token)
  \/ \E s \in Slots, t \in Tokens : StartRunCall(s, t)
  \/ \E s \in Slots, t \in PayloadTokens : PlayMoveCall(s, t)
  \/ \E s \in Slots, t \in PayloadTokens : UseItemCall(s, t)
  \/ \E s \in Slots, r \in ResponseTokens : StartRunReturns(s, r)
  \/ \E s \in Slots, r \in ResponseTokens : PlayMoveReturns(s, r)
  \/ \E s \in Slots, r \in ResponseTokens : UseItemReturns(s, r)
  \/ \E s \in Slots : PostFails(s)

\* a client on its own: no simulation runs next to it
ClientInit ==
  /\ SimInit
  /\ Len(config.enemies) = 0 /\ runsCount = 1 /\ ~detailed
  /\ ClientNew

ClientSpec == ClientInit /\ [][ClientNext]_vars

\* ------------------------------------------------------------- properties

Combatants ==
  {objects[a] : a \in DOMAIN objects}
    \cup {enemiesAsPlayers[k] : k \in 1 .. Len(enemiesAsPlayers)}

InBattle == pc \in {"while", "battleReturned"}

\* C1: for the player and every enemy, in every reachable state,
\* 0 <= health.current <= health.currentMax and
\* 0 <= shield.current <= shield.currentMax.
HealthAndShieldInRange ==
  \A c \in Combatants :
    /\ 0 <= c.health.current /\ c.health.current <= c.health.currentMax
    /\ 0 <= c.shield.current /\ c.shield.current <= c.shield.currentMax

\* a heal item was used, the player holds shield and is below full HP
HealthAndShieldWitness ==
  /\ playerClone # NullRef
  /\ Len(usedConsumables) > 0
  /\ Player.shield.current > 0
  /\ Player.health.current < Player.health.currentMax

\* C2: every move of every combatant keeps currentCharges in -1..maxCharges.
ChargesInRange ==
  \A c \in Combatants : \A k \in 1 .. 3 :
    c[allMoves[k]].currentCharges \in -1 .. c[allMoves[k]].maxCharges

\* an enemy with one move penalised (-1) and another one back at its maximum
ChargesWitness ==
  \E k \in 1 .. Len(enemiesAsPlayers) :
    /\ \E m \in 1 .. 3 : enemiesAsPlayers[k][allMoves[m]].currentCharges = -1
    /\ \E m \in 1 .. 3 : enemiesAsPlayers[k][allMoves[m]].currentCharges =
                           enemiesAsPlayers[k][allMoves[m]].maxCharges

RunStarting == pc = "for" /\ i = 0

\* C3: every run of simulateMultipleRuns starts from the state the first
\* run started from: same player stats, freshly converted enemies, same
\* consumable quantities.
RunsStartAlike ==
  RunStarting =>
    /\ Player = firstRun[1].player
    /\ enemiesAsPlayers = firstRun[1].enemies
    /\ availableConsumables = firstRun[1].consumables

\* C4: no step of a run changes the caller's player object.
ConfigPlayerNeverMutated ==
  [][objects'[ConfigPlayerRef] = objects[ConfigPlayerRef]]_vars

\* a run returned and its working copy differs from the caller's player
ClonedPlayerChanged ==
  /\ pc = "returned"
  /\ Player # objects[config.player]
  /\ Len(usedConsumables) > 0

\* C5: every battle ends: from the while loop the run always gets to the
\* battle's return, where the player's or the enemy's HP is 0.
BattleAlwaysEnds == (pc = "while") ~> (pc = "battleReturned")

\* C6: from every reachable state the narrated and the silent code take the
\* same step for the same draws: same limit, same round (player, enemy,
\* consumables, used log, return value), same loot phase.
LogsAndNoLogsAgree ==
  /\ simulateRunLimit(config.maxEnemiesToFight, Len(config.enemies))
       = simulateRunNoLogsLimit(config.maxEnemiesToFight, Len(config.enemies))
  /\ (pc = "while" /\ Player.health.current > 0 /\ Enemy.health.current > 0)
       => \A dp \in Draws, de \in Draws :
            simulateBattle(Player, Enemy, availableConsumables,
                           usedConsumables, dp, de)
              = simulateBattleNoLogs(Player, Enemy, availableConsumables,
                                     usedConsumables, dp, de)
  /\ (pc = "battleReturned" /\ playerWon)
       => \A draws \in DrawSeqs, dIdx \in Draws :
            simulateLootPhase(Player, config.lootPool, draws, dIdx,
                              config.lootProbaFn)
              = simulateLootPhaseNoLogs(Player, config.lootPool, draws, dIdx,
                                        config.lootProbaFn)

\* the silent run is about to fight a round in which a heal item is used
LogsAndNoLogsWitness ==
  /\ ~detailed
  /\ pc = "while"
  /\ Player.health.current > 0 /\ Enemy.health.current > 0
  /\ ratioBelowThreshold(Player)
  /\ findHealItem(availableConsumables) # 0

\* C7: when the battle against enemy k is lost the run returns
\* survived = false and enemiesDefeated = k, the enemies after k are as
\* converted and the loot log holds the loots of the k victories only.
DefeatStopsRun ==
  (pc = "returned" /\ ~result.survived) =>
    /\ result.enemiesDefeated = i
    /\ Player.health.current = 0
    /\ \A j \in (i + 2) .. Len(enemiesAsPlayers) :
         enemiesAsPlayers[j] = convertEnemyToPlayer(config.enemies[j])
    /\ Len(result.lootPickedLog) = IF Len(config.lootPool) = 0 THEN 0 ELSE i
    /\ result.lootPickedLog = lootPickedLog

\* the run was lost against the second enemy, with a third one waiting
DefeatWitness ==
  /\ pc = "returned" /\ ~result.survived
  /\ i = 1 /\ limit = 3

\* C8: a run whose battles were all won returns survived = true and
\* enemiesDefeated = the number of enemies fought; an empty roster gives
\* survived = true, enemiesDefeated = 0, no battle and no loot.
WinAllSurvives ==
  /\ ( /\ pc = "returned"
       /\ \A j \in 1 .. limit : enemiesAsPlayers[j].health.current = 0
       /\ limit > 0 => Player.health.current > 0 )
       => (result.survived /\ result.enemiesDefeated = limit)
  /\ (pc = "returned" /\ Len(config.enemies) = 0)
       => /\ result = runResult(0, TRUE, playerClone, <<>>, <<>>)
          /\ Player = objects[config.player]

\* two battles were won and the run returned
WinAllWitness ==
  /\ pc = "returned" /\ result.survived
  /\ limit >= 2
  /\ Player.health.current < Player.health.currentMax

\* C9: with maxEnemiesToFight supplied, at most min(maxEnemiesToFight,
\* roster length) enemies are fought and enemiesDefeated <= maxEnemiesToFight.
CapRespected ==
  config.maxEnemiesToFight # Undefined =>
    /\ enemiesDefeated <= config.maxEnemiesToFight
    /\ InBattle => i + 1 <= Min(config.maxEnemiesToFight, Len(config.enemies))

\* C10: a battle that ends with both at 0 HP returns false, does not count
\* the enemy and ends the run with survived = false.
MutualKnockoutIsLoss ==
  /\ ( /\ pc = "battleReturned"
       /\ Player.health.current = 0 /\ Enemy.health.current = 0 )
       => (~playerWon /\ enemiesDefeated = i)
  /\ ( /\ pc = "returned" /\ i < limit
       /\ Player.health.current = 0 /\ Enemy.health.current = 0 )
       => (~result.survived /\ result.enemiesDefeated = i)

\* a round has just brought both the player and the enemy to 0 HP
MutualKnockoutWitness ==
  /\ pc = "battleReturned"
  /\ Player.health.current = 0 /\ Enemy.health.current = 0
  /\ Enemy.health.currentMax > 0
  /\ objects[config.player].health.current > 0

\* a round is about to be fought: every step from here is a BattleRound
RoundStarts ==
  pc = "while" /\ Player.health.current > 0 /\ Enemy.health.current > 0

\* C11: in a tie round where both sides have the same ATK and the same DEF
\* on the move played and both start with shield.current = 0 (and no
\* consumable is used), the player's HP and the enemy's HP each go down by
\* exactly the other side's ATK, floored at 0.
TieIsSymmetric ==
  [][ ( /\ RoundStarts
        /\ availableConsumables' = availableConsumables
        /\ playerMove' = enemyMove'
        /\ Player[playerMove'].currentATK = Enemy[enemyMove'].currentATK
        /\ Player[playerMove'].currentDEF = Enemy[enemyMove'].currentDEF
        /\ Player.shield.current = 0 /\ Enemy.shield.current = 0 )
      => ( /\ Player'.health.current =
                Max(0, Player.health.current - Enemy[enemyMove'].currentATK)
           /\ Enemy'.health.current =
                Max(0, Enemy.health.current - Player[playerMove'].currentATK) )
    ]_vars

LootWeightFns == {"none", "lootProbability"}

\* C12: when a loot phase is about to run, for every prefix of the pool,
\* every weight function and every sequence of draws, pickRandomLoots(pool,
\* 3) has min(3, pool size) elements, no option twice, and only options of
\* the pool; what the run has picked so far comes from the pool.
LootSampleWellFormed ==
  /\ (pc = "battleReturned" /\ playerWon /\ lootFollows(i, limit)) =>
       \A n \in 0 .. Len(config.lootPool), fn \in LootWeightFns,
          draws \in DrawSeqs :
         LET pool == SubSeq(config.lootPool, 1, n)
             proposed == pickRandomLoots(pool, LootSampleCount, draws, fn)
         IN /\ Len(proposed) = Min(LootSampleCount, n)
            /\ \A a, b \in 1 .. Len(proposed) :
                 a # b => proposed[a] # proposed[b]
            /\ \A a \in 1 .. Len(proposed) :
                 \E k \in 1 .. n : pool[k] = proposed[a]
  /\ \A a \in 1 .. Len(lootPickedLog) :
       \E k \in 1 .. Len(config.lootPool) :
         config.lootPool[k] = lootPickedLog[a]

\* two loot phases have sampled 3 of a pool of 4 with rarity weights
LootSampleWitness ==
  /\ Len(lootPickedLog) = 2
  /\ Len(config.lootPool) > LootSampleCount
  /\ config.lootProbaFn = "lootProbability"
  /\ lootPickedLog[1] # lootPickedLog[2]

InRun == pc \in {"for", "while", "battleReturned", "returned"}

\* C13 as stated: with a non-empty loot pool, at the end of the run
\* lootPickedLog has length min(enemiesDefeated, limit - 1).
LootLogLengthAsStated ==
  (pc = "returned" /\ Len(config.lootPool) > 0) =>
    Len(result.lootPickedLog) = Min(result.enemiesDefeated, limit - 1)

\* C13 (amended): all along the run one loot has been logged per battle won
\* that was not the last of the capped roster, and none otherwise: with a
\* non-empty loot pool lootPickedLog has length
\* min(enemiesDefeated, max(limit - 1, 0)), with an empty pool length 0, and
\* the run returns that log.
LootLogLength ==
  InRun =>
    /\ Len(lootPickedLog) =
         IF Len(config.lootPool) > 0
           THEN Min(enemiesDefeated, Max(limit - 1, 0))
           ELSE 0
    /\ pc = "returned" =>
         /\ result.lootPickedLog = lootPickedLog
         /\ result.enemiesDefeated = enemiesDefeated

\* a run of three battles returned with the loots of the first two
LootLogWitness ==
  /\ pc = "returned" /\ result.survived
  /\ limit = 3 /\ result.enemiesDefeated = 3
  /\ Len(result.lootPickedLog) = 2

\* HP the player is left with when a round with the moves pm, em is resolved
\* from HP hp: the enemy's hit (none when the player wins) less what the
\* player's shield, this round's gain included, absorbs
HpAfterRound(hp, pm, em) ==
  LET gain == IF pm = em \/ Beats(pm, em) THEN Player[pm].currentDEF ELSE 0
      dmg == IF pm = em \/ Beats(em, pm) THEN Enemy[em].currentATK ELSE 0
      shieldAvail == Min(Player.shield.current + gain,
                         Player.shield.currentMax)
  IN Max(0, hp - Max(0, dmg - shieldAvail))

\* C14: in a round that starts with HP / max HP < 0.30 and a heal item of
\* quantity > 0, one unit of one such item is consumed, one entry is
\* appended to usedConsumables and the round's damage is applied to
\* min(max HP, HP + amount), amount 20 / 8 / 4 for level 3 / 2 / other;
\* in every other round the consumables, the used log and the HP before
\* damage are unchanged.
HealTrigger ==
  [][ RoundStarts =>
      LET hp == Player.health.current
          hpMax == Player.health.currentMax
          usable == {k \in 1 .. Len(availableConsumables) :
                       /\ availableConsumables[k].name = "heal"
                       /\ availableConsumables[k].quantity > 0}
          amount(k) == IF availableConsumables[k].level = 3 THEN 20
                       ELSE IF availableConsumables[k].level = 2 THEN 8
                       ELSE 4
      IN IF hp * 10 < 3 * hpMax /\ usable # {}
           THEN \E k \in usable :
                  /\ availableConsumables' =
                       [availableConsumables EXCEPT ![k].quantity = @ - 1]
                  /\ Len(usedConsumables') = Len(usedConsumables) + 1
                  /\ SubSeq(usedConsumables', 1, Len(usedConsumables))
                       = usedConsumables
                  /\ Player'.health.current =
                       HpAfterRound(Min(hpMax, hp + amount(k)),
                                    playerMove', enemyMove')
           ELSE /\ availableConsumables' = availableConsumables
                /\ usedConsumables' = usedConsumables
                /\ Player'.health.current =
                     HpAfterRound(hp, playerMove', enemyMove')
    ]_vars

\* heals of level 1 and 3 were used, the second one capped at max HP, and
\* the round's hit came after it
HealTriggerWitness ==
  /\ InBattle
  /\ Len(usedConsumables) = 2
  /\ usedConsumables[1].level = 1 /\ usedConsumables[2].level = 3
  /\ Player.health.current = Player.health.currentMax - 4
  /\ enemyMove # NoMove

RECURSIVE totalQuantity(_, _)
totalQuantity(consumables, n) ==
  IF n = 0 THEN 0
  ELSE totalQuantity(consumables, n - 1) + consumables[n].quantity

\* the list with the stock of every item that is not a heal set to 0
WithoutOtherKinds(consumables) ==
  [k \in 1 .. Len(consumables) |->
     IF consumables[k].name = "heal" THEN consumables[k]
     ELSE [consumables[k] EXCEPT !.quantity = 0]]

\* C15: no step uses more than one consumable unit, an item that is not a
\* heal keeps its quantity, and a round gives the player and the enemy the
\* same state as it would if no item of another kind were in stock.
OnlyHealOncePerRound ==
  [][ /\ Len(availableConsumables') = Len(availableConsumables)
      /\ totalQuantity(availableConsumables, Len(availableConsumables))
           - totalQuantity(availableConsumables', Len(availableConsumables))
             \in {0, 1}
      /\ \A k \in 1 .. Len(availableConsumables) :
           availableConsumables[k].name # "heal" =>
             availableConsumables'[k] = availableConsumables[k]
      /\ ( RoundStarts
           /\ WithoutOtherKinds(availableConsumables) # availableConsumables )
         =>
           \A dp \in Draws, de \in Draws :
             LET with == RoundOf(detailed, Player, Enemy,
                                 availableConsumables, usedConsumables,
                                 dp, de)
                 without == RoundOf(detailed, Player, Enemy,
                                    WithoutOtherKinds(availableConsumables),
                                    usedConsumables, dp, de)
             IN /\ with.player = without.player
                /\ with.enemy = without.enemy
                /\ with.usedLog = without.usedLog
    ]_vars

\* the silent path used a heal although an item of another kind comes
\* first in the list with quantity 2
OnlyHealWitness ==
  /\ ~detailed /\ InBattle
  /\ Len(usedConsumables) > 0
  /\ availableConsumables[1].name = "damage"
  /\ availableConsumables[1].quantity = 2

\* the Combatant e holds the values of the EnemyDefinition def and nothing
\* else: base stats (0 where missing), full HP and shield, 3 of 3 charges
AsConverted(e, def) ==
  LET base(n) == statOr0(def.MOVE_STATS_CID_array, n)
      move(atk, dfn) ==
        [startingATK |-> atk, startingDEF |-> dfn, currentATK |-> atk,
         currentDEF |-> dfn, currentCharges |-> 3, maxCharges |-> 3]
      pool(v) == [current |-> v, currentMax |-> v, starting |-> v,
                  startingMax |-> v]
  IN e = [id |-> def.ID_CID, health |-> pool(base(6)),
          shield |-> pool(base(7)), rock |-> move(base(0), base(1)),
          paper |-> move(base(2), base(3)),
          scissor |-> move(base(4), base(5))]

\* C16: every conversion of an EnemyDefinition, in the same roster or in a
\* later run, gives a Combatant with the definition's values, full HP and
\* shield and 3 of 3 charges; a round changes the enemy that fights it and
\* no other converted enemy, and no step changes the definitions.
EnemyCopiesIndependent ==
  [][ /\ config'.enemies = config.enemies
      /\ pc = "idle" =>
           /\ Len(enemiesAsPlayers') = Len(config.enemies)
           /\ \A k \in 1 .. Len(config.enemies) :
                AsConverted(enemiesAsPlayers'[k], config.enemies[k])
      /\ pc # "idle" =>
           \A k \in 1 .. Len(enemiesAsPlayers) :
             (pc = "while" /\ k = i + 1)
               \/ enemiesAsPlayers'[k] = enemiesAsPlayers[k]
    ]_vars

\* two enemies converted from the same definition, the first one beaten,
\* the second one untouched
EnemyCopiesWitness ==
  /\ InRun /\ Len(enemiesAsPlayers) >= 2
  /\ config.enemies[1] = config.enemies[2]
  /\ enemiesAsPlayers[1].health.current = 0
  /\ enemiesAsPlayers[1].health.currentMax > 0
  /\ AsConverted(enemiesAsPlayers[2], config.enemies[2])

\* the charge cycle for one combatant over one round: before and after are
\* the combatant at the start and at the end of the round, played its move
ChargeCycleStep(before, after, played) ==
  \A k \in 1 .. 3 :
    LET m == allMoves[k]
        c == before[m].currentCharges
        c2 == after[m].currentCharges
    IN /\ (m = played /\ c = 1) => c2 = -1
       /\ (m # played /\ c = -1) => c2 = 0
       /\ (m # played /\ c >= 0) =>
            c2 = IF c < before[m].maxCharges THEN c + 1 ELSE c

\* C17: in every round, for the player and for the enemy, a move played
\* with exactly 1 charge goes to -1, a move at -1 that is not played goes
\* to 0, and a move at 0 or more that is not played gains 1 charge unless
\* it is at maxCharges already.
ChargeCycle ==
  [][ RoundStarts =>
        /\ ChargeCycleStep(Player, Player', playerMove')
        /\ ChargeCycleStep(Enemy, Enemy', enemyMove')
    ]_vars

\* rock was played down from 2 charges to -1 while scissor, which started
\* at -1, came back to 0 and then to 1
ChargeCycleWitness ==
  /\ InBattle
  /\ objects[config.player].rock.currentCharges = 2
  /\ objects[config.player].scissor.currentCharges = -1
  /\ Player.rock.currentCharges = -1
  /\ Player.scissor.currentCharges = 1

\* C18: in a round the player wins by RPS precedence the player's HP and
\* shield do not go down and the enemy's shield does not go up; the enemy
\* loses min(player's move ATK, enemy shield + HP), from the shield first;
\* when that is all the enemy has, the battle returns a victory, and a
\* one-enemy run that returned with its enemy dead and the player alive
\* reports survived = true, enemiesDefeated = 1.
PlayerWinsRound ==
  [][ /\ ( RoundStarts /\ Beats(playerMove', enemyMove') ) =>
           LET atk == Player[playerMove'].currentATK
               sh == Enemy.shield.current
               hp == Enemy.health.current
           IN /\ Player'.health.current >= Player.health.current
              /\ Player'.shield.current >= Player.shield.current
              /\ Enemy'.shield.current = Max(0, sh - atk)
              /\ Enemy'.health.current = hp - Max(0, Min(atk, sh + hp) - sh)
              /\ sh + hp <= atk =>
                   /\ Enemy'.health.current = 0
                   /\ pc' = "battleReturned" /\ playerWon'
      /\ ( /\ pc' = "returned" /\ limit' = 1
           /\ enemiesAsPlayers'[1].health.current = 0
           /\ Player'.health.current > 0 ) =>
           (result'.survived /\ result'.enemiesDefeated = 1)
    ]_vars

\* rock beat scissor and took all of the enemy's shield and HP at once
PlayerWinsRoundWitness ==
  /\ pc = "battleReturned" /\ playerWon
  /\ playerMove = ROCK /\ enemyMove = SCISSOR
  /\ Len(config.enemies) = 1
  /\ Enemy.shield.currentMax > 0 /\ Enemy.shield.current = 0
  /\ Enemy.health.current = 0

\* C19: a victory followed by a loot phase (i < limit - 1) leaves the loot
\* log and the player as they are when the pool is empty, and appends the
\* pool's option when the pool has exactly one, whatever the draws.
SmallLootPools ==
  [][ ( pc = "battleReturned" /\ playerWon /\ i < limit - 1 ) =>
        /\ Len(config.lootPool) = 0 =>
             (lootPickedLog' = lootPickedLog /\ Player' = Player)
        /\ Len(config.lootPool) = 1 =>
             lootPickedLog' = Append(lootPickedLog, config.lootPool[1])
    ]_vars

\* the silent run won a real battle, went through a loot phase with an
\* empty pool and is at the next enemy with nothing picked
SmallLootPoolsWitness ==
  /\ ~detailed
  /\ pc = "for" /\ i = 1 /\ limit = 2
  /\ Len(config.lootPool) = 0
  /\ enemiesAsPlayers[1].health.currentMax > 0
  /\ lootPickedLog = <<>>

\* C20: from every reachable state the run takes the same step with its
\* config as with the config whose randomSeed is any other value, for the
\* same values of Math.random(): same limit, same converted enemies, same
\* round, same loot phase.  Two runs that start alike and differ in
\* randomSeed only therefore stay in step.
SeedIgnored ==
  \A seed \in Seeds :
    LET other == [config EXCEPT !.randomSeed = seed]
    IN /\ LimitOfRun(other, detailed) = LimitOfRun(config, detailed)
       /\ [k \in 1 .. Len(other.enemies) |->
             convertEnemyToPlayer(other.enemies[k])]
            = [k \in 1 .. Len(config.enemies) |->
                 convertEnemyToPlayer(config.enemies[k])]
       /\ RoundStarts =>
            \A dp \in Draws, de \in Draws :
              RoundOfRun(other, detailed, Player, Enemy,
                         availableConsumables, usedConsumables, dp, de)
                = RoundOfRun(config, detailed, Player, Enemy,
                             availableConsumables, usedConsumables, dp, de)
       /\ (pc = "battleReturned" /\ playerWon /\ lootFollows(i, limit)) =>
            \A draws \in DrawSeqs, dIdx \in Draws :
              LootPhaseOfRun(other, detailed, Player, draws, dIdx)
                = LootPhaseOfRun(config, detailed, Player, draws, dIdx)

\* a run with a randomSeed fought rounds, picked a loot and returned
SeedIgnoredWitness ==
  /\ config.randomSeed # Undefined
  /\ pc = "returned"
  /\ Len(result.lootPickedLog) > 0
  /\ Player # objects[config.player]

\* a call completes in this step: its POST resolved with a response
Completes ==
  \E s \in Slots :
    inFlight[s] # NoCall /\ inFlight'[s] = NoCall /\ settled'.ok

\* C21: after a startRun / playMove / useItem call completes, getActionToken
\* returns the actionToken its response carried, and the token held before
\* when the response carried none; a call that starts or fails leaves the
\* token as it was.
ActionTokenFollowsResponses ==
  [][ IF Completes
        THEN getActionToken' =
               IF settled'.actionToken # Undefined
                 THEN settled'.actionToken ELSE getActionToken
        ELSE inFlight' # inFlight => getActionToken' = getActionToken ]_vars

\* the charges of the move a combatant played, over one round
PlayedMoveStep(before, after, played) ==
  LET c == before[played].currentCharges
      c2 == after[played].currentCharges
  IN /\ c > 1 => c2 = c - 1
     /\ c = 1 => c2 = -1
     /\ c \in {0, -1} => c2 = c

\* C22: in every round, for the player and for the enemy, the move just
\* played loses exactly one charge when it had more than 1, goes to -1 when
\* it had exactly 1, and keeps its value when it had 0 or -1.
PlayedMoveCharges ==
  [][ RoundStarts =>
        /\ PlayedMoveStep(Player, Player', playerMove')
        /\ PlayedMoveStep(Enemy, Enemy', enemyMove')
    ]_vars

\* rock was played as the fallback with no charge: it is still at 0 (a
\* played move never arrives at 0 from another value)
PlayedMoveWitness ==
  /\ InBattle
  /\ playerMove = ROCK
  /\ Player.rock.currentCharges = 0
  /\ Player.rock.maxCharges > 0

\* the charges of the two moves a combatant did not play, over one round
IdleMovesStep(before, after, played) ==
  \A k \in 1 .. 3 :
    LET m == allMoves[k]
        c == before[m].currentCharges
        c2 == after[m].currentCharges
    IN m # played =>
         /\ c = -1 => c2 = 0
         /\ (0 <= c /\ c < before[m].maxCharges) => c2 = c + 1
         /\ c = before[m].maxCharges => c2 = c

\* C23: in every round, for the player and for the enemy, each of the two
\* moves not played goes from -1 to 0, from c to c + 1 when 0 <= c <
\* maxCharges, and stays where it is at maxCharges.
IdleMoveCharges ==
  [][ RoundStarts =>
        /\ IdleMovesStep(Player, Player', playerMove')
        /\ IdleMovesStep(Enemy, Enemy', enemyMove')
    ]_vars

\* after a round in which the enemy played rock, its paper came out of
\* the penalty (an idle move at 0 with room above was at -1) while its
\* scissor stayed at its maximum
IdleMoveWitness ==
  /\ InBattle
  /\ enemyMove = ROCK
  /\ Enemy.paper.currentCharges = 0
  /\ Enemy.paper.maxCharges > 0
  /\ Enemy.scissor.currentCharges = Enemy.scissor.maxCharges

\* move is a legal pick for the combatant c: a move with a charge when c
\* has one, rock otherwise
LegalPick(c, move) ==
  IF \E k \in 1 .. 3 : c[allMoves[k]].currentCharges > 0
    THEN c[move].currentCharges > 0
    ELSE move = ROCK

\* C24: in every round the move picked for the player and the move picked
\* for the enemy has currentCharges > 0 whenever the combatant has such a
\* move, and is rock when it has none, whatever rock's charges are.
PickOnlyChargedMoves ==
  [][ RoundStarts =>
        /\ LegalPick(Player, playerMove')
        /\ LegalPick(Enemy, enemyMove')
    ]_vars

\* rock was picked for a player none of whose moves had a charge: after
\* the round all three are at 0 (paper back from the penalty)
PickFallbackWitness ==
  /\ InBattle
  /\ playerMove = ROCK
  /\ \A k \in 1 .. 3 : Player[allMoves[k]].currentCharges = 0
  /\ Player.paper.maxCharges > 0

\* C25: for the combatants of every round and each of the 9 move pairs,
\* computeRoundOutcome gives, when the moves are equal, the player's move
\* ATK and DEF as dmgToEnemy and shieldGainPlayer and the enemy's move ATK
\* and DEF as dmgToPlayer and shieldGainEnemy; when the enemy's move beats
\* the player's, dmgToEnemy = 0 and shieldGainPlayer = 0 while dmgToPlayer
\* and shieldGainEnemy are the enemy's move ATK and DEF.
TieAndEnemyWinOutcomes ==
  RoundStarts =>
    \A pk \in 1 .. 3, ek \in 1 .. 3 :
      LET pm == allMoves[pk]
          em == allMoves[ek]
          o == computeRoundOutcome(Player, Enemy, pm, em)
      IN /\ pm = em =>
              /\ o.dmgToEnemy = Player[pm].currentATK
              /\ o.shieldGainPlayer = Player[pm].currentDEF
              /\ o.dmgToPlayer = Enemy[em].currentATK
              /\ o.shieldGainEnemy = Enemy[em].currentDEF
         /\ Beats(em, pm) =>
              /\ o.dmgToEnemy = 0
              /\ o.shieldGainPlayer = 0
              /\ o.dmgToPlayer = Enemy[em].currentATK
              /\ o.shieldGainEnemy = Enemy[em].currentDEF

\* a round is about to be fought by a player whose rock has ATK and DEF
\* against an enemy whose moves have ATK and DEF as well, after a round
\* the enemy won with paper over rock
TieAndEnemyWinWitness ==
  /\ RoundStarts
  /\ playerMove = ROCK /\ enemyMove = PAPER
  /\ Player.rock.currentATK > 0 /\ Player.rock.currentDEF > 0
  /\ Enemy.paper.currentATK > 0 /\ Enemy.paper.currentDEF > 0
  /\ Player.health.current < objects[config.player].health.current

\* C26: in every round the two applications of applyDamageAndShield leave
\* what the claim states.  The enemy, defender of the first: its shield
\* absorbs min(shield, dmgToEnemy), its HP loses only the remainder, floored
\* at 0, and is untouched while dmgToEnemy <= shield; as attacker of the
\* second its shield becomes min(shield + shieldGainEnemy, currentMax).  The
\* player, attacker of the first: its shield becomes min(shield +
\* shieldGainPlayer, currentMax); as defender of the second that shield
\* absorbs min(shield, dmgToPlayer) and (no consumable used) its HP loses
\* only the remainder, floored at 0.
DamageAndShieldApplied ==
  [][ RoundStarts =>
        LET o == computeRoundOutcome(Player, Enemy, playerMove', enemyMove')
            absorbE == Min(Enemy.shield.current, o.dmgToEnemy)
            gainedP == Min(Player.shield.current + o.shieldGainPlayer,
                           Player.shield.currentMax)
            absorbP == Min(gainedP, o.dmgToPlayer)
        IN /\ Enemy'.health.current =
                Max(0, Enemy.health.current - (o.dmgToEnemy - absorbE))
           /\ o.dmgToEnemy <= Enemy.shield.current =>
                Enemy'.health.current = Enemy.health.current
           /\ Enemy'.shield.current =
                Min(Enemy.shield.current - absorbE + o.shieldGainEnemy,
                    Enemy.shield.currentMax)
           /\ Player'.shield.current = gainedP - absorbP
           /\ availableConsumables' = availableConsumables =>
                /\ Player'.health.current =
                     Max(0, Player.health.current
                              - (o.dmgToPlayer - absorbP))
                /\ o.dmgToPlayer <= gainedP =>
                     Player'.health.current = Player.health.current
    ]_vars

\* the enemy's shield absorbed one point of a hit and its HP took the rest
\* and is not 0
DamageAndShieldWitness ==
  /\ InBattle
  /\ playerMove # NoMove
  /\ Enemy.shield.currentMax > 0 /\ Enemy.shield.current = 0
  /\ Enemy.health.current = Enemy.health.currentMax - 1
  /\ Enemy.health.current > 0

\* the charges of every move of after are those updateCharges gives from
\* before with the move played
ChargesUpdated(before, after, played) ==
  \A k \in 1 .. 3 :
    after[allMoves[k]].currentCharges =
      updateCharges(before, played)[allMoves[k]].currentCharges

\* C27: a tie round in which the player's hit brings the enemy to 0 HP
\* still applies the enemy's hit of that round to the player (the player's
\* shield, this round's gain included, absorbs what it can and the HP takes
\* the rest, when no consumable is used), still gives the enemy its shield
\* gain, and still updates the charges of both combatants.
KillingTieRoundRunsInFull ==
  [][ ( /\ RoundStarts
        /\ playerMove' = enemyMove'
        /\ Enemy'.health.current = 0 ) =>
        LET dmg == Enemy[enemyMove'].currentATK
            gainedP == Min(Player.shield.current
                             + Player[playerMove'].currentDEF,
                           Player.shield.currentMax)
            absorbP == Min(gainedP, dmg)
            absorbE == Min(Enemy.shield.current,
                           Player[playerMove'].currentATK)
        IN /\ Player'.shield.current = gainedP - absorbP
           /\ availableConsumables' = availableConsumables =>
                Player'.health.current =
                  Max(0, Player.health.current - (dmg - absorbP))
           /\ Enemy'.shield.current =
                Min(Enemy.shield.current - absorbE
                      + Enemy[enemyMove'].currentDEF,
                    Enemy.shield.currentMax)
           /\ ChargesUpdated(Player, Player', playerMove')
           /\ ChargesUpdated(Enemy, Enemy', enemyMove')
    ]_vars

\* a tie round has just killed the enemy, and the player, who survives it,
\* has lost HP to the enemy's hit; the move the dead enemy played is down
\* from its full charges
KillingTieWitness ==
  /\ pc = "battleReturned"
  /\ playerMove = enemyMove /\ playerMove # NoMove
  /\ Enemy.health.current = 0 /\ Enemy.health.currentMax > 0
  /\ Player.health.current > 0
  /\ Player.health.current < objects[config.player].health.current
  /\ Enemy[enemyMove].currentCharges < Enemy[enemyMove].maxCharges
  /\ Player[playerMove].currentCharges
       # objects[config.player][playerMove].currentCharges

\* the player with every field a loot may change blanked out
LootFrame(p) ==
  [p EXCEPT !.rock.currentATK = 0, !.rock.currentDEF = 0,
            !.paper.currentATK = 0, !.paper.currentDEF = 0,
            !.scissor.currentATK = 0, !.scissor.currentDEF = 0,
            !.health.current = 0, !.shield.currentMax = 0]

\* the move a boon kind upgrades, NoMove for the other kinds
UpgradedMove(boon) ==
  CASE boon = "UpgradeRock" -> ROCK
    [] boon = "UpgradePaper" -> PAPER
    [] boon = "UpgradeScissor" -> SCISSOR
    [] OTHER -> NoMove

\* C28: a loot phase that picks a loot changes the player by the fields of
\* the loot's kind only, in the narrated and in the silent run: an upgrade
\* adds selectedVal1 to its move's currentATK and selectedVal2 to its
\* currentDEF, Heal sets HP to min(currentMax, HP + selectedVal1),
\* AddMaxArmor adds selectedVal1 to shield.currentMax and leaves
\* shield.current alone, any other kind changes nothing; no kind changes
\* a charge.
LootChangesOnlyItsKind ==
  [][ ( /\ pc = "battleReturned" /\ playerWon
        /\ Len(lootPickedLog') = Len(lootPickedLog) + 1 ) =>
        LET loot == lootPickedLog'[Len(lootPickedLog')]
            boon == loot.boonTypeString
        IN /\ LootFrame(Player') = LootFrame(Player)
           /\ \A k \in 1 .. 3 :
                LET m == allMoves[k]
                    up == m = UpgradedMove(boon)
                IN /\ Player'[m].currentATK = Player[m].currentATK
                        + (IF up THEN loot.selectedVal1 ELSE 0)
                   /\ Player'[m].currentDEF = Player[m].currentDEF
                        + (IF up THEN loot.selectedVal2 ELSE 0)
                   /\ Player'[m].currentCharges = Player[m].currentCharges
           /\ Player'.health.current =
                IF boon = "Heal"
                  THEN Min(Player.health.currentMax,
                           Player.health.current + loot.selectedVal1)
                  ELSE Player.health.current
           /\ Player'.shield.currentMax = Player.shield.currentMax
                + (IF boon = "AddMaxArmor" THEN loot.selectedVal1 ELSE 0)
           /\ Player'.shield.current = Player.shield.current
    ]_vars

\* a heal was picked and raised the HP short of its maximum, then a boon
\* of an unknown kind was picked
LootKindsWitness ==
  /\ InRun
  /\ Len(lootPickedLog) = 2
  /\ lootPickedLog[1].boonTypeString = "Heal"
  /\ lootPickedLog[2].boonTypeString = "Unknown"
  /\ Player.health.current > objects[config.player].health.current
  /\ Player.health.current < Player.health.currentMax

\* the entry k (counted from 0) of a MOVE_STATS_CID_array is missing
MissingStat(arr, k) == k + 1 > Len(arr) \/ arr[k + 1] = Undefined

\* the position of a move's ATK in MOVE_STATS_CID_array; its DEF follows
AtkIndex(move) ==
  CASE move = ROCK -> 0 [] move = PAPER -> 2 [] move = SCISSOR -> 4

\* C29: every enemy of the run whose definition lacks a stat entry has 0
\* for that stat: ATK and DEF of the move, HP, shield; and in every round
\* against such an enemy, whatever the two moves, an enemy move without an
\* ATK entry deals 0 damage and one without a DEF entry gives 0 shield.
MissingStatsAreZero ==
  InRun =>
    \A k \in 1 .. Len(enemiesAsPlayers) :
      LET arr == config.enemies[k].MOVE_STATS_CID_array
          e == enemiesAsPlayers[k]
      IN /\ \A j \in 1 .. 3 :
              LET m == allMoves[j]
              IN /\ MissingStat(arr, AtkIndex(m)) =>
                      (e[m].currentATK = 0 /\ e[m].startingATK = 0)
                 /\ MissingStat(arr, AtkIndex(m) + 1) =>
                      (e[m].currentDEF = 0 /\ e[m].startingDEF = 0)
         /\ MissingStat(arr, 6) =>
              (e.health.current = 0 /\ e.health.currentMax = 0)
         /\ MissingStat(arr, 7) =>
              (e.shield.current = 0 /\ e.shield.currentMax = 0)
         /\ (RoundStarts /\ k = i + 1) =>
              \A pj \in 1 .. 3, ej \in 1 .. 3 :
                LET em == allMoves[ej]
                    o == computeRoundOutcome(Player, e, allMoves[pj], em)
                IN /\ MissingStat(arr, AtkIndex(em)) => o.dmgToPlayer = 0
                   /\ MissingStat(arr, AtkIndex(em) + 1) =>
                        o.shieldGainEnemy = 0

\* a run against an enemy whose rock has null ATK and DEF entries has
\* returned: the enemy was fought and defeated, its rock was played, and
\* the player is unhurt
MissingStatsWitness ==
  /\ pc = "returned"
  /\ result.survived /\ result.enemiesDefeated = 1
  /\ config.enemies[1].MOVE_STATS_CID_array[1] = Undefined
  /\ enemiesAsPlayers[1].health.currentMax > 0
  /\ enemiesAsPlayers[1].rock.currentCharges < EnemyCharges
  /\ Player.health.current = objects[config.player].health.current

\* C30: a step of the battle loop ends the battle only with the player or
\* the enemy at 0 HP, with true exactly when the enemy is at 0 and the
\* player above 0 and false exactly when the player is at 0; with both
\* above 0 the step is a round (moves picked, charges updated), and a
\* round that leaves both above 0 stays in the loop.
BattleReturnsOnDeath ==
  [][ pc = "while" =>
        /\ pc' \in {"while", "battleReturned"}
        /\ RoundStarts =>
             /\ playerMove' \in {ROCK, PAPER, SCISSOR}
             /\ enemyMove' \in {ROCK, PAPER, SCISSOR}
             /\ ChargesUpdated(Player, Player', playerMove')
             /\ ChargesUpdated(Enemy, Enemy', enemyMove')
        /\ pc' = "battleReturned" =>
             /\ Player'.health.current = 0 \/ Enemy'.health.current = 0
             /\ playerWon' <=>
                  (Enemy'.health.current = 0 /\ Player'.health.current > 0)
             /\ ~playerWon' <=> Player'.health.current = 0
        /\ pc' = "while" =>
             (Player'.health.current > 0 /\ Enemy'.health.current > 0)
    ]_vars

\* a battle has returned true after at least two rounds: the enemy, once
\* alive, played its rock twice and is at 0 HP, the player is alive
BattleReturnsWitness ==
  /\ pc = "battleReturned" /\ playerWon
  /\ Enemy.health.current = 0 /\ Enemy.health.currentMax > 0
  /\ Player.health.current > 0
  /\ Enemy.rock.currentCharges <= EnemyCharges - 2

\* the call in slot s leaves in this step
Leaves(s) == inFlight[s] = NoCall /\ inFlight'[s] # NoCall

\* C31: the request of a playMove or useItem call carries the payload's
\* actionToken when the caller supplied one (0 and the empty string
\* included), otherwise the token the client holds at the call, otherwise
\* the empty string.
SentTokenPrecedence ==
  [][ \A s \in Slots :
        ( Leaves(s) /\ inFlight'[s].method \in {"playMove", "useItem"} ) =>
          inFlight'[s].actionToken =
            IF inFlight'[s].payloadToken # Undefined
              THEN inFlight'[s].payloadToken
            ELSE IF getActionToken # Null THEN getActionToken
            ELSE EmptyString
    ]_vars

\* two requests are out: a playMove without a payload token sent
\* with the empty string by a client that held none, and a useItem without
\* a payload token sent with the stored token 1
SentTokenWitness ==
  \E s \in Slots, t \in Slots :
    /\ inFlight[s].method = "playMove"
    /\ inFlight[s].payloadToken = Undefined
    /\ inFlight[s].actionToken = EmptyString
    /\ inFlight[t].method = "useItem"
    /\ inFlight[t].payloadToken = Undefined
    /\ inFlight[t].actionToken = 1

\* the call in slot s relies on the stored token, and the client had one
ReliesOnStoredToken(s) ==
  /\ inFlight[s].method \in {"playMove", "useItem"}
  /\ inFlight[s].payloadToken = Undefined
  /\ inFlight[s].actionToken # EmptyString

\* C39: two playMove / useItem calls in flight at the same time that both
\* rely on the stored token never carry the same token.
ConcurrentCallsDifferentTokens ==
  \A s \in Slots, t \in Slots :
    ( s # t /\ ReliesOnStoredToken(s) /\ ReliesOnStoredToken(t) ) =>
      inFlight[s].actionToken # inFlight[t].actionToken

\* a call ends in this step because its POST was not OK
Fails ==
  \E s \in Slots :
    inFlight[s] # NoCall /\ inFlight'[s] = NoCall /\ ~settled'.ok

\* C40: the step in which a startRun, playMove or useItem call fails on a
\* response that is not OK reports the failure of that call and leaves the
\* stored action token as it was.
FailedCallKeepsToken ==
  [][ Fails =>
        /\ getActionToken' = getActionToken
        /\ \E s \in Slots :
             /\ inFlight'[s] = NoCall
             /\ settled'.method = inFlight[s].method
             /\ settled'.actionToken = Undefined
    ]_vars

\* a playMove call has failed on a client that holds the token 1, with
\* nothing else in flight
FailedCallWitness ==
  /\ settled.method = "playMove" /\ ~settled.ok
  /\ getActionToken = 1
  /\ \A s \in Slots : inFlight[s] = NoCall

\* the combatant c has a move with a charge
HasChargedMove(c) ==
  \E k \in 1 .. 3 : c[allMoves[k]].currentCharges > 0

\* the moves of c that are under the spam penalty
PenalisedMoves(c) ==
  {k \in 1 .. 3 : c[allMoves[k]].currentCharges = -1}

\* a combatant as it starts: every maxCharges >= 1, at most one move at
\* -1, at least one move with a charge
StartsCharged(c) ==
  /\ \A k \in 1 .. 3 : c[allMoves[k]].maxCharges >= 1
  /\ Cardinality(PenalisedMoves(c)) <= 1
  /\ HasChargedMove(c)

\* C32: a combatant that starts with maxCharges >= 1 on every move, at
\* most one move at -1 and a move with a charge (every enemy does, at
\* 3/3/3) has a move with a charge before and after every round, and the
\* move it plays has a charge: the rock fallback is never taken.
NeverOutOfCharges ==
  [][ RoundStarts =>
        /\ StartsCharged(objects[config.player]) =>
             /\ HasChargedMove(Player)
             /\ Player[playerMove'].currentCharges > 0
             /\ HasChargedMove(Player')
        /\ StartsCharged(convertEnemyToPlayer(config.enemies[i + 1])) =>
             /\ HasChargedMove(Enemy)
             /\ Enemy[enemyMove'].currentCharges > 0
             /\ HasChargedMove(Enemy')
    ]_vars

\* a player with one charge per move is three rounds into a battle: the
\* move of the last round is at -1, the one before at 0, the third is the
\* only one with a charge
NeverOutOfChargesWitness ==
  /\ pc = "while"
  /\ StartsCharged(objects[config.player])
  /\ \A k \in 1 .. 3 : Player[allMoves[k]].maxCharges = 1
  /\ \E a \in 1 .. 3, b \in 1 .. 3, c \in 1 .. 3 :
       /\ Player[allMoves[a]].currentCharges = -1
       /\ Player[allMoves[b]].currentCharges = 0
       /\ Player[allMoves[c]].currentCharges = 1

\* over one round, a combatant that started with no move at -1 has at
\* most one move at -1 before and after, and its move at -1 is at 0 after
PenaltyStepAsStated(start, before, after) ==
  PenalisedMoves(start) = {} =>
    /\ Cardinality(PenalisedMoves(before)) <= 1
    /\ Cardinality(PenalisedMoves(after)) <= 1
    /\ \A k \in PenalisedMoves(before) :
         after[allMoves[k]].currentCharges = 0

\* C33 as stated: for a combatant that starts with no move at -1, at most
\* one move is at -1 in every state, and a move at -1 is at 0 after the
\* very next round.
PenaltyLastsOneRoundAsStated ==
  [][ RoundStarts =>
        /\ PenaltyStepAsStated(objects[config.player], Player, Player')
        /\ PenaltyStepAsStated(convertEnemyToPlayer(config.enemies[i + 1]),
                               Enemy, Enemy')
    ]_vars

\* the same, but for the move at -1 that is played in the round: it is
\* rock, no move had a charge, and it stays at -1
PenaltyStep(start, before, after, played) ==
  PenalisedMoves(start) = {} =>
    /\ Cardinality(PenalisedMoves(before)) <= 1
    /\ Cardinality(PenalisedMoves(after)) <= 1
    /\ \A k \in PenalisedMoves(before) :
         IF allMoves[k] = played
           THEN /\ played = ROCK
                /\ ~HasChargedMove(before)
                /\ after[allMoves[k]].currentCharges = -1
           ELSE after[allMoves[k]].currentCharges = 0

\* C33, amended: for a combatant that starts with no move at -1, at most
\* one move is at -1 in every state, and a move at -1 is at 0 after the
\* very next round unless it is rock played as the fallback of a combatant
\* without a charged move, which stays at -1.
PenaltyLastsOneRound ==
  [][ RoundStarts =>
        /\ PenaltyStep(objects[config.player], Player, Player', playerMove')
        /\ PenaltyStep(convertEnemyToPlayer(config.enemies[i + 1]),
                       Enemy, Enemy', enemyMove')
    ]_vars

\* a player that started without a penalty is about to fight a round with
\* rock at -1 and no charge on any move: rock is the fallback
PenaltyWitness ==
  /\ RoundStarts
  /\ PenalisedMoves(objects[config.player]) = {}
  /\ Player.rock.currentCharges = -1
  /\ ~HasChargedMove(Player)

\* C34: a tie round (no consumable used) between a player and an enemy
\* that have the same ATK and DEF on the move played, the same HP, the same
\* shield and the same shield maximum before it leaves them with equal HP
\* and equal shield.
TieTreatsSidesAlike ==
  [][ ( /\ RoundStarts
        /\ availableConsumables' = availableConsumables
        /\ playerMove' = enemyMove'
        /\ Player[playerMove'].currentATK = Enemy[enemyMove'].currentATK
        /\ Player[playerMove'].currentDEF = Enemy[enemyMove'].currentDEF
        /\ Player.health.current = Enemy.health.current
        /\ Player.shield.current = Enemy.shield.current
        /\ Player.shield.currentMax = Enemy.shield.currentMax ) =>
        /\ Player'.health.current = Enemy'.health.current
        /\ Player'.shield.current = Enemy'.shield.current
    ]_vars

\* C35: in the result of every run, narrated or silent, survived is true
\* if and only if enemiesDefeated equals the number of enemies to fight.
SurvivedIffAllDefeated ==
  pc = "returned" =>
    (result.survived <=> result.enemiesDefeated = limit)

\* the player fell to the last enemy of a roster of two or more: one
\* short of the number to fight, survived = false
SurvivedIffWitness ==
  /\ pc = "returned"
  /\ limit >= 2
  /\ ~result.survived
  /\ result.enemiesDefeated = limit - 1

\* C36: no step leaves a consumable with a negative quantity; a run starts
\* with an empty usedConsumables and an untouched list, and every later
\* step of the run adds to usedConsumables exactly as many entries as it
\* removes units from the list: at every point of the run the number of
\* entries is the number of units removed since the run started.
ConsumablesAccounted ==
  [][ /\ \A k \in 1 .. Len(availableConsumables') :
           availableConsumables'[k].quantity >= 0
      /\ IF pc = "idle"
           THEN /\ usedConsumables' = <<>>
                /\ availableConsumables' = availableConsumables
           ELSE Len(usedConsumables') - Len(usedConsumables) =
                  totalQuantity(availableConsumables,
                                Len(availableConsumables))
                  - totalQuantity(availableConsumables',
                                  Len(availableConsumables'))
    ]_vars

\* a run has returned with two heals used: both heals that were in stock
\* are at 0, the item of another kind still has its 2 units
ConsumablesWitness ==
  /\ pc = "returned"
  /\ Len(result.usedConsumables) = 2
  /\ Len(availableConsumables) = 4
  /\ \A k \in 2 .. 4 : availableConsumables[k].quantity = 0
  /\ availableConsumables[1].quantity = 2

\* the enemy of the battle was converted with HP 0
EnemyDeadOnArrival == Enemy.health.currentMax = 0

\* C37: the battle against an enemy converted with HP 0, entered by a
\* player with HP > 0, returns true in one step in which no move is
\* picked, no consumable is used and the player does not change; the step
\* that follows counts the enemy (enemiesDefeated + 1) and, but for the
\* loot picked after the victory, leaves the player unchanged too, its
\* charges and its shield in any case.
DeadOnArrivalIsDefeated ==
  [][ /\ ( /\ pc = "while"
           /\ EnemyDeadOnArrival
           /\ Player.health.current > 0 ) =>
             /\ pc' = "battleReturned" /\ playerWon'
             /\ playerMove = NoMove /\ enemyMove = NoMove
             /\ playerMove' = NoMove /\ enemyMove' = NoMove
             /\ availableConsumables' = availableConsumables
             /\ usedConsumables' = usedConsumables
             /\ Player' = Player
             /\ enemiesDefeated' = enemiesDefeated
      /\ ( /\ pc = "battleReturned"
           /\ EnemyDeadOnArrival
           /\ playerWon ) =>
             /\ enemiesDefeated' = enemiesDefeated + 1
             /\ availableConsumables' = availableConsumables
             /\ usedConsumables' = usedConsumables
             /\ \A k \in 1 .. 3 :
                  Player'[allMoves[k]].currentCharges =
                    Player[allMoves[k]].currentCharges
             /\ Player'.shield.current = Player.shield.current
             /\ lootPickedLog' = lootPickedLog => Player' = Player
    ]_vars

\* after a first enemy that was fought, the battle against a second one
\* converted with HP 0 has returned true, with no move picked
DeadOnArrivalWitness ==
  /\ pc = "battleReturned" /\ playerWon
  /\ i >= 1 /\ enemiesDefeated = i
  /\ enemiesAsPlayers[1].health.currentMax > 0
  /\ EnemyDeadOnArrival
  /\ playerMove = NoMove

\* C38: no step of a run, a loot phase in particular, changes the loot
\* pool: config.lootPool holds the same options in the same order after it.
LootPoolUntouched ==
  [][ config'.lootPool = config.lootPool ]_vars

\* two loot phases of one run have picked the same option of a pool of
\* several
LootPoolWitness ==
  /\ InRun
  /\ Len(config.lootPool) >= 2
  /\ Len(lootPickedLog) = 2
  /\ lootPickedLog[1] = lootPickedLog[2]

====
